---- MODULE Spec2Model ----
(***************************************************************************)
(* Apex Commons: the tRPC routers over the relational schema, modelled as  *)
(* a state machine.  The database tables are the variables.  A request     *)
(* arrives (context and middleware), and its handler then runs one awaited *)
(* database statement per step; no handler opens a transaction, so the     *)
(* statements of requests that are served at the same time interleave.     *)
(* Each handler is also given as a function of the database: what the      *)
(* request does when no other request runs between its statements.         *)
(***************************************************************************)
EXTENDS Integers, Sequences, FiniteSets, Bags, TLC

(* ------------------------------------------------------------------ *)
(* Bounds of the model                                                  *)
(* ------------------------------------------------------------------ *)
MaxResources == 1
MaxFlags == 1
MaxProposals == 1
MaxLedger == 5

(* ------------------------------------------------------------------ *)
(* shared/const: RC_CONFIG and CONTRIBUTOR_LEVELS                       *)
(* ------------------------------------------------------------------ *)
RESOURCE_SUBMITTED == 5
RESOURCE_APPROVED == 25
RESOURCE_UPVOTE_RECEIVED == 2
RESOURCE_DOWNVOTE_RECEIVED == -1
RESOURCE_DOWNLOAD == 1
PROPOSAL_CREATED == -50
PROPOSAL_PASSED == 100
PROPOSAL_VOTE_CAST == 1
FLAG_SUBMITTED == 1
FLAG_UPHELD == 10
FLAG_DISMISSED == -5
MIN_RC_TO_CREATE_PROPOSAL == 100
MIN_RC_TO_VOTE_ON_PROPOSAL == 10
MIN_RC_TO_FLAG == 5

\* CONTRIBUTOR_LEVELS in declaration order; max of the last level is Infinity
CONTRIBUTOR_LEVELS ==
  << [level |-> "newcomer",    min |-> 0,    max |-> 49,  inf |-> FALSE],
     [level |-> "contributor", min |-> 50,   max |-> 199, inf |-> FALSE],
     [level |-> "trusted",     min |-> 200,  max |-> 499, inf |-> FALSE],
     [level |-> "expert",      min |-> 500,  max |-> 999, inf |-> FALSE],
     [level |-> "master",      min |-> 1000, max |-> 0,   inf |-> TRUE] >>

(* ------------------------------------------------------------------ *)
(* Users, roles, callers                                                *)
(* ------------------------------------------------------------------ *)
roleEnum == <<"user", "teacher", "moderator", "admin">>
UserIds == {"u1", "u2", "u3", "u4"}
anon == "anon"            \* ctx.user is null
Callers == UserIds \cup {anon}
none == "none"            \* SQL NULL in a text column
noTime == -1              \* SQL NULL in a timestamp column
noId == 0                 \* SQL NULL in a reference column

VARIABLES users, resources, resourceVotes, resourceDownloads, resourceViews,
          moderationFlags, proposals, proposalVotes, rcTransactions, now, scroll,
          inflight

vars == <<users, resources, resourceVotes, resourceDownloads, resourceViews,
          moderationFlags, proposals, proposalVotes, rcTransactions, now, scroll,
          inflight>>

\* the database as one value: what a handler reads and what it leaves behind
cur == [users |-> users, resources |-> resources, resourceVotes |-> resourceVotes,
        resourceDownloads |-> resourceDownloads, resourceViews |-> resourceViews,
        moderationFlags |-> moderationFlags,
        proposals |-> proposals, proposalVotes |-> proposalVotes,
        rcTransactions |-> rcTransactions]

(* ------------------------------------------------------------------ *)
(* Helpers                                                              *)
(* ------------------------------------------------------------------ *)
\* rc_transactions, resource_downloads and resource_views are tables whose
\* primary key is a random id: the model keeps their rows without the id, as
\* bags
RECURSIVE SumAmounts(_)
SumAmounts(rows) ==
  IF DOMAIN rows = {} THEN 0
  ELSE LET row == CHOOSE r \in DOMAIN rows : TRUE
       IN rows[row] * row.amount
            + SumAmounts([r \in (DOMAIN rows) \ {row} |-> rows[r]])

RowsOf(tx, u) == [r \in {x \in DOMAIN tx : x.userId = u} |-> tx[r]]

insert(table, row) == table (+) SetToBag({row})

\* a handler's outcome: the tRPC result code, the database it leaves, its output.
\* A thrown TRPCError leaves the database as the handler found it.
Done(s, out) == [result |-> "OK", s |-> s, out |-> out]
Throw(s, code) == [result |-> code, s |-> s, out |-> none]

(* ------------------------------------------------------------------ *)
(* _core/trpc: the procedure middlewares (ctx.user is the caller's row) *)
(* ------------------------------------------------------------------ *)
requireUser(s, c) == IF c = anon THEN "UNAUTHORIZED" ELSE "OK"

adminProcedure(s, c) ==
  IF c = anon \/ s.users[c].role # "admin" THEN "FORBIDDEN" ELSE "OK"

\* a teacher guard that only asks for a signed-in caller
teacherProcedureAnyUser(s, c) == IF c = anon THEN "UNAUTHORIZED" ELSE "OK"

teacherProcedure(s, c) ==
  IF c = anon THEN "UNAUTHORIZED"
  ELSE IF s.users[c].role \notin {"teacher", "moderator", "admin"} THEN "FORBIDDEN"
  ELSE "OK"

\* a moderator guard that also lets teachers through
moderatorProcedureTeacher(s, c) ==
  IF c = anon THEN "UNAUTHORIZED"
  ELSE IF s.users[c].role \notin {"teacher", "moderator", "admin"} THEN "FORBIDDEN"
  ELSE "OK"

moderatorProcedure(s, c) ==
  IF c = anon THEN "UNAUTHORIZED"
  ELSE IF s.users[c].role \notin {"moderator", "admin"} THEN "FORBIDDEN"
  ELSE "OK"

\* a minimum-RC guard that only asks for a signed-in caller
createMinRcProcedureNoMinimum(minRc, s, c) == IF c = anon THEN "UNAUTHORIZED" ELSE "OK"

createMinRcProcedure(minRc, s, c) ==
  IF c = anon THEN "UNAUTHORIZED"
  ELSE IF s.users[c].reputationCredits < minRc THEN "FORBIDDEN"
  ELSE "OK"

(* ------------------------------------------------------------------ *)
(* awardRc: read the balance, write balance + amount, insert one row    *)
(* ------------------------------------------------------------------ *)
\* For a userId without a users row the select finds nothing, the update
\* changes no row and the insert violates the foreign key of
\* rc_transactions.user_id: awardRc throws and no row is written.  The
\* handlers pass contributorId, authorId, reporterId or ctx.user.id, which
\* are ids of users rows, and go on with the database awardRc leaves.
awardRc(s, userId, amount, reason, referenceType, referenceId) ==
  LET currentRc == IF userId \in DOMAIN s.users
                   THEN s.users[userId].reputationCredits ELSE 0
      newBalance == currentRc + amount
  IN IF userId \notin DOMAIN s.users
     THEN Throw(s, "INTERNAL_SERVER_ERROR")
     ELSE Done([s EXCEPT
                  !.users[userId].reputationCredits = newBalance,
                  !.rcTransactions = insert(@, [userId |-> userId, amount |-> amount,
                                                reason |-> reason,
                                                referenceType |-> referenceType,
                                                referenceId |-> referenceId,
                                                balanceAfter |-> newBalance])],
               newBalance)

\* userRouter.getContributorLevel: first level whose range holds rc, else newcomer
RECURSIVE levelFrom(_, _)
levelFrom(rc, i) ==
  IF i > Len(CONTRIBUTOR_LEVELS) THEN "newcomer"
  ELSE IF rc >= CONTRIBUTOR_LEVELS[i].min
          /\ (CONTRIBUTOR_LEVELS[i].inf \/ rc <= CONTRIBUTOR_LEVELS[i].max)
       THEN CONTRIBUTOR_LEVELS[i].level
       ELSE levelFrom(rc, i + 1)

getContributorLevel(rc) == levelFrom(rc, 1)

\* zod object parsing: keys that the schema does not declare are stripped
zodStrip(input, keys) == [k \in (DOMAIN input) \cap keys |-> input[k]]

\* drizzle .set({...updates}): the named columns are overwritten
setColumns(row, updates) ==
  [f \in DOMAIN row |-> IF f \in DOMAIN updates THEN updates[f] ELSE row[f]]

(* ------------------------------------------------------------------ *)
(* Rows with the column defaults of drizzle/schema                      *)
(* ------------------------------------------------------------------ *)
NewResource(owner, st) ==
  [contributorId |-> owner, status |-> st, title |-> "t0", reviewedBy |-> none,
   upvoteCount |-> 0, downvoteCount |-> 0, netVotes |-> 0, downloadCount |-> 0,
   viewCount |-> 0]

(* ------------------------------------------------------------------ *)
(* resourceRouter                                                       *)
(* ------------------------------------------------------------------ *)
\* browse's switch on input.sort and the ORDER BY it builds: asc(createdAt)
\* for oldest, desc(viewCount) for popular, desc(netVotes) for highest_rated,
\* desc(downloadCount) for most_downloaded, else desc(createdAt).  Ids are
\* given in creation order, so createdAt orders the rows as their ids do;
\* rows with equal keys come in the order the table holds them.
RECURSIVE orderBy(_, _, _)
orderBy(s, ids, sort) ==
  IF ids = {} THEN <<>>
  ELSE LET key(i) == CASE sort = "oldest" -> -i
                       [] sort = "popular" -> s.resources[i].viewCount
                       [] sort = "highest_rated" -> s.resources[i].netVotes
                       [] sort = "most_downloaded" -> s.resources[i].downloadCount
                       [] OTHER -> i
           top == {i \in ids : \A j \in ids : key(i) >= key(j)}
           first == CHOOSE i \in top : \A j \in top : i <= j
       IN <<first>> \o orderBy(s, ids \ {first}, sort)

\* the rows that match browse's conditions: the status asked for, else approved
browseMatches(s, status) ==
  {id \in DOMAIN s.resources :
     s.resources[id].status = (IF status = none THEN "approved" ELSE status)}

\* resource.browse (publicProcedure): limit + 1 rows from the start of the
\* ordered matches; the query does not read input.cursor
resourceBrowse(s, status, sort, limit, cursor) ==
  LET ordered == orderBy(s, browseMatches(s, status), sort)
      results == SubSeq(ordered, 1, IF Len(ordered) < limit + 1 THEN Len(ordered) ELSE limit + 1)
      hasMore == Len(results) > limit
      items == IF hasMore THEN SubSeq(results, 1, Len(results) - 1) ELSE results
  IN Done(s, [items |-> items,
              nextCursor |-> IF hasMore THEN items[Len(items)] ELSE noId])

\* limit: 12 of the infinite-scroll client's query
ClientLimit == 12

\* resources.getAll (publicProcedure): after the parser (limit between 1 and
\* 100) the handler builds one select over the resources table of
\* drizzle/schema whose column list names resources.upvotes,
\* resources.downvotes and resources.views.  That table declares upvoteCount,
\* downvoteCount and viewCount and none of the three, so the query cannot be
\* built: every call that reaches the handler fails before a row is read,
\* no page and no nextCursor are returned
resourcesGetAll(s, limit) ==
  IF limit \notin 1..100 THEN Throw(s, "BAD_REQUEST")
  ELSE Throw(s, "INTERNAL_SERVER_ERROR")

\* resource.create (teacherProcedure)

resourceCreate(s, c) ==
  LET auth == teacherProcedure(s, c) IN
  IF auth # "OK" THEN Throw(s, auth)
  ELSE
    LET id == Len(s.resources) + 1
        s1 == [s EXCEPT !.resources = Append(@, NewResource(c, "pending"))]
        s2 == [s1 EXCEPT !.users[c].totalResourcesSubmitted = @ + 1]
        s3 == awardRc(s2, c, RESOURCE_SUBMITTED, "resource_submitted", "resource", id).s
    IN Done(s3, id)

updateResourceInputKeys == {"title"}

\* resource.update's inline role check
updateIsModerator(s, c) == s.users[c].role \in {"moderator", "admin"}

\* resource.update (protectedProcedure): owner or moderator/admin
resourceUpdate(s, c, id, input) ==
  LET auth == requireUser(s, c) IN
  IF auth # "OK" THEN Throw(s, auth)
  ELSE IF id \notin DOMAIN s.resources THEN Throw(s, "NOT_FOUND")
  ELSE
    LET existing == s.resources[id]
        isOwner == existing.contributorId = c
        isModerator == updateIsModerator(s, c)
        updates == zodStrip(input, updateResourceInputKeys)
    IN IF ~isOwner /\ ~isModerator THEN Throw(s, "FORBIDDEN")
       ELSE Done([s EXCEPT !.resources[id] = setColumns(existing, updates)], none)

\* resource.submitForReview (teacherProcedure): own draft -> pending
resourceSubmitForReview(s, c, id) ==
  LET auth == teacherProcedure(s, c) IN
  IF auth # "OK" THEN Throw(s, auth)
  ELSE IF id \notin DOMAIN s.resources THEN Throw(s, "NOT_FOUND")
  ELSE IF s.resources[id].contributorId # c THEN Throw(s, "FORBIDDEN")
  ELSE IF s.resources[id].status # "draft" THEN Throw(s, "BAD_REQUEST")
  ELSE Done([s EXCEPT !.resources[id].status = "pending"], none)

\* resource.trackView (publicProcedure): a resource_views row, whose
\* resource_id is a foreign key, then the view counter
resourceTrackView(s, c, id) ==
  IF id \notin DOMAIN s.resources THEN Throw(s, "INTERNAL_SERVER_ERROR")
  ELSE Done([s EXCEPT !.resourceViews =
                        insert(@, [resourceId |-> id,
                                   userId |-> IF c = anon THEN none ELSE c]),
                      !.resources[id].viewCount = @ + 1], none)

\* a trackDownload that leaves the contributor's download total alone
resourceTrackDownloadNoStats(s, c, id) ==
  IF id \notin DOMAIN s.resources THEN Throw(s, "NOT_FOUND")
  ELSE
    LET resource == s.resources[id]
        s1 == [s EXCEPT !.resourceDownloads =
                 insert(@, [resourceId |-> id, userId |-> IF c = anon THEN none ELSE c])]
        s2 == [s1 EXCEPT !.resources[id].downloadCount = @ + 1]
        s4 == awardRc(s2, resource.contributorId, RESOURCE_DOWNLOAD,
                      "resource_upvoted", "resource", id).s
    IN Done(s4, none)

\* resource.trackDownload (publicProcedure)
resourceTrackDownload(s, c, id) ==
  IF id \notin DOMAIN s.resources THEN Throw(s, "NOT_FOUND")
  ELSE
    LET resource == s.resources[id]
        s1 == [s EXCEPT !.resourceDownloads =
                 insert(@, [resourceId |-> id, userId |-> IF c = anon THEN none ELSE c])]
        s2 == [s1 EXCEPT !.resources[id].downloadCount = @ + 1]
        s3 == [s2 EXCEPT !.users[resource.contributorId].totalDownloadsReceived = @ + 1]
        s4 == awardRc(s3, resource.contributorId, RESOURCE_DOWNLOAD,
                      "resource_upvoted", "resource", id).s
    IN Done(s4, none)

\* nanoid(): an id that no row of the table carries and no request holds
freshId(used) == CHOOSE n \in 1..(Cardinality(used) + 1) : n \notin used

\* a lookup that takes any user's vote row on the resource for the caller's
existingVoteAnyUser(s, c, id) == {v \in s.resourceVotes : v.resourceId = id}

\* resource.vote's lookup of the caller's vote row on the resource
existingVote(s, c, id) ==
  {v \in s.resourceVotes : v.resourceId = id /\ v.userId = c}

\* resource.vote (protectedProcedure)
resourceVote(s, c, id, value) ==
  LET auth == requireUser(s, c) IN
  IF auth # "OK" THEN Throw(s, auth)
  ELSE IF id \notin DOMAIN s.resources THEN Throw(s, "NOT_FOUND")
  ELSE IF s.resources[id].contributorId = c THEN Throw(s, "BAD_REQUEST")
  ELSE
    LET resource == s.resources[id]
        existing == existingVote(s, c, id)
        ev == CHOOSE v \in existing : TRUE
        newValue == IF value = "up" THEN 1 ELSE -1
    IN
    IF value = "remove" THEN
      IF existing # {} THEN
        LET s1 == [s EXCEPT !.resourceVotes = @ \ existing]
            s2 == IF ev.value > 0
                  THEN [s1 EXCEPT !.resources[id].upvoteCount = @ - 1,
                                  !.resources[id].netVotes = @ - 1]
                  ELSE [s1 EXCEPT !.resources[id].downvoteCount = @ - 1,
                                  !.resources[id].netVotes = @ + 1]
        IN Done(s2, none)
      ELSE Done(s, none)
    ELSE IF existing # {} THEN
      IF ev.value = newValue THEN Done(s, newValue)
      ELSE
        LET s1 == [s EXCEPT !.resourceVotes =
                     (@ \ {ev}) \cup {[ev EXCEPT !.value = newValue]}]
        IN IF newValue > 0
           THEN LET s2 == [s1 EXCEPT !.resources[id].upvoteCount = @ + 1,
                                     !.resources[id].downvoteCount = @ - 1,
                                     !.resources[id].netVotes = @ + 2]
                IN Done(awardRc(s2, resource.contributorId,
                                RESOURCE_UPVOTE_RECEIVED - RESOURCE_DOWNVOTE_RECEIVED,
                                "resource_upvoted", "resource", id).s, newValue)
           ELSE LET s2 == [s1 EXCEPT !.resources[id].upvoteCount = @ - 1,
                                     !.resources[id].downvoteCount = @ + 1,
                                     !.resources[id].netVotes = @ - 2]
                IN Done(awardRc(s2, resource.contributorId,
                                RESOURCE_DOWNVOTE_RECEIVED - RESOURCE_UPVOTE_RECEIVED,
                                "resource_downvoted", "resource", id).s, newValue)
    ELSE
      LET s1 == [s EXCEPT !.resourceVotes =
                   @ \cup {[id |-> freshId({v.id : v \in s.resourceVotes}), resourceId |-> id,
                            userId |-> c, value |-> newValue]}]
      IN IF newValue > 0
         THEN LET s2 == [s1 EXCEPT !.resources[id].upvoteCount = @ + 1,
                                   !.resources[id].netVotes = @ + 1]
                  s3 == [s2 EXCEPT !.users[resource.contributorId].totalUpvotesReceived = @ + 1]
              IN Done(awardRc(s3, resource.contributorId, RESOURCE_UPVOTE_RECEIVED,
                              "resource_upvoted", "resource", id).s, newValue)
         ELSE LET s2 == [s1 EXCEPT !.resources[id].downvoteCount = @ + 1,
                                   !.resources[id].netVotes = @ - 1]
              IN Done(awardRc(s2, resource.contributorId, RESOURCE_DOWNVOTE_RECEIVED,
                              "resource_downvoted", "resource", id).s, newValue)

(* ------------------------------------------------------------------ *)
(* moderationRouter                                                     *)
(* ------------------------------------------------------------------ *)
\* moderation.createFlag (flagProcedure = createMinRcProcedure(MIN_RC_TO_FLAG))
moderationCreateFlag(s, c, targetType, targetId) ==
  LET auth == createMinRcProcedure(MIN_RC_TO_FLAG, s, c) IN
  IF auth # "OK" THEN Throw(s, auth)
  ELSE IF \E i \in DOMAIN s.moderationFlags :
            /\ s.moderationFlags[i].targetType = targetType
            /\ s.moderationFlags[i].targetId = targetId
            /\ s.moderationFlags[i].reporterId = c
       THEN Throw(s, "CONFLICT")
  ELSE
    LET id == Len(s.moderationFlags) + 1
        s1 == [s EXCEPT !.moderationFlags =
                 Append(@, [targetType |-> targetType, targetId |-> targetId,
                            reporterId |-> c, status |-> "open", resolvedBy |-> none])]
    IN Done(awardRc(s1, c, FLAG_SUBMITTED, "flag_submitted", "flag", id).s, id)

\* a review whose rejection leaves the submission bonus with the contributor
reviewWritesKeepBonus(s, c, id, decision) ==
  LET resource == s.resources[id]
      newStatus == IF decision = "approve" THEN "approved" ELSE "rejected"
      s1 == [s EXCEPT !.resources[id].status = newStatus,
                      !.resources[id].reviewedBy = c]
  IN IF decision = "approve"
     THEN LET s2 == [s1 EXCEPT !.users[resource.contributorId].totalResourcesApproved = @ + 1]
          IN awardRc(s2, resource.contributorId, RESOURCE_APPROVED,
                     "resource_approved", "resource", id).s
     ELSE s1

\* the writes of one review: status, reviewer, contributor stats, RC
reviewWrites(s, c, id, decision) ==
  LET resource == s.resources[id]
      newStatus == IF decision = "approve" THEN "approved" ELSE "rejected"
      s1 == [s EXCEPT !.resources[id].status = newStatus,
                      !.resources[id].reviewedBy = c]
  IN IF decision = "approve"
     THEN LET s2 == [s1 EXCEPT !.users[resource.contributorId].totalResourcesApproved = @ + 1]
          IN awardRc(s2, resource.contributorId, RESOURCE_APPROVED,
                     "resource_approved", "resource", id).s
     ELSE awardRc(s1, resource.contributorId, -RESOURCE_SUBMITTED,
                  "resource_rejected", "resource", id).s

\* moderation.reviewResource (moderatorProcedure)
moderationReviewResource(s, c, id, decision) ==
  LET auth == moderatorProcedure(s, c) IN
  IF auth # "OK" THEN Throw(s, auth)
  ELSE IF id \notin DOMAIN s.resources THEN Throw(s, "NOT_FOUND")
  ELSE IF s.resources[id].status # "pending" THEN Throw(s, "BAD_REQUEST")
  ELSE Done(reviewWrites(s, c, id, decision), none)

\* a loop that reviews every listed resource that exists, pending or not
RECURSIVE bulkLoopNoStatusCheck(_, _, _, _, _)
bulkLoopNoStatusCheck(s, c, resourceIds, decision, processed) ==
  IF resourceIds = <<>> THEN Done(s, processed)
  ELSE LET resourceId == Head(resourceIds) IN
       IF resourceId \notin DOMAIN s.resources
       THEN bulkLoopNoStatusCheck(s, c, Tail(resourceIds), decision, processed)
       ELSE bulkLoopNoStatusCheck(reviewWrites(s, c, resourceId, decision), c,
                                  Tail(resourceIds), decision, processed + 1)

\* the for-loop of bulkReviewResources: missing and non-pending ids are skipped
RECURSIVE bulkLoop(_, _, _, _, _)
bulkLoop(s, c, resourceIds, decision, processed) ==
  IF resourceIds = <<>> THEN Done(s, processed)
  ELSE LET resourceId == Head(resourceIds) IN
       IF resourceId \notin DOMAIN s.resources
          \/ s.resources[resourceId].status # "pending"
       THEN bulkLoop(s, c, Tail(resourceIds), decision, processed)
       ELSE bulkLoop(reviewWrites(s, c, resourceId, decision), c,
                     Tail(resourceIds), decision, processed + 1)

\* moderation.bulkReviewResources (moderatorProcedure)
moderationBulkReviewResources(s, c, resourceIds, decision) ==
  LET auth == moderatorProcedure(s, c) IN
  IF auth # "OK" THEN Throw(s, auth)
  ELSE bulkLoop(s, c, resourceIds, decision, 0)

\* moderation.claimFlag (moderatorProcedure)
moderationClaimFlag(s, c, id) ==
  LET auth == moderatorProcedure(s, c) IN
  IF auth # "OK" THEN Throw(s, auth)
  ELSE IF id \notin DOMAIN s.moderationFlags THEN Throw(s, "NOT_FOUND")
  ELSE IF s.moderationFlags[id].status # "open" THEN Throw(s, "BAD_REQUEST")
  ELSE Done([s EXCEPT !.moderationFlags[id].status = "under_review"], none)

\* moderation.resolveFlag (moderatorProcedure)
moderationResolveFlag(s, c, flagId, resolution) ==
  LET auth == moderatorProcedure(s, c) IN
  IF auth # "OK" THEN Throw(s, auth)
  ELSE IF flagId \notin DOMAIN s.moderationFlags THEN Throw(s, "NOT_FOUND")
  ELSE IF s.moderationFlags[flagId].status \notin {"open", "under_review"}
       THEN Throw(s, "BAD_REQUEST")
  ELSE
    LET flag == s.moderationFlags[flagId]
        newStatus == IF resolution = "upheld" THEN "resolved" ELSE "dismissed"
        s1 == [s EXCEPT !.moderationFlags[flagId].status = newStatus,
                        !.moderationFlags[flagId].resolvedBy = c]
        s2 == IF resolution = "upheld"
              THEN LET a == awardRc(s1, flag.reporterId, FLAG_UPHELD,
                                    "flag_upheld", "flag", flagId).s
                   IN IF /\ flag.targetType = "resource"
                         /\ flag.targetId \in DOMAIN a.resources
                         /\ a.resources[flag.targetId].status = "approved"
                      THEN [a EXCEPT !.resources[flag.targetId].status = "archived"]
                      ELSE a
              ELSE awardRc(s1, flag.reporterId, FLAG_DISMISSED,
                           "flag_dismissed", "flag", flagId).s
    IN Done(awardRc(s2, c, FLAG_SUBMITTED, "moderation_action", "flag", flagId).s,
            newStatus)

(* ------------------------------------------------------------------ *)
(* governanceRouter                                                     *)
(* ------------------------------------------------------------------ *)
\* the .input() parser, which runs after the procedure's middleware and
\* before its handler: createProposalInput declares votingDurationDays as
\* z.number().min(3).max(30); the other inputs the model passes are values
\* their schemas accept
inputSchema(op, input) ==
  IF op = "governance.create" /\ input[1] \notin 3..30 THEN "BAD_REQUEST" ELSE "OK"

\* governance.create (createMinRcProcedure(MIN_RC_TO_CREATE_PROPOSAL)); the
\* clock counts days
governanceCreate(s, c, t, votingDurationDays) ==
  LET auth == createMinRcProcedure(MIN_RC_TO_CREATE_PROPOSAL, s, c) IN
  IF auth # "OK" THEN Throw(s, auth)
  ELSE IF inputSchema("governance.create", <<votingDurationDays>>) # "OK"
  THEN Throw(s, "BAD_REQUEST")
  ELSE
    LET id == Len(s.proposals) + 1
        s1 == [s EXCEPT !.proposals =
                 Append(@, [authorId |-> c, status |-> "active", title |-> "p0",
                            snapshotRc |-> s.users[c].reputationCredits,
                            votingEndsAt |-> t + votingDurationDays,
                            closedAt |-> noTime,
                            votesFor |-> 0, votesAgainst |-> 0, votesAbstain |-> 0,
                            totalRcWeight |-> 0])]
    IN Done(awardRc(s1, c, PROPOSAL_CREATED, "proposal_created", "proposal", id).s, id)

updateProposalInputKeys == {"title"}

\* governance.update (protectedProcedure): the author, a draft
governanceUpdate(s, c, id, input) ==
  LET auth == requireUser(s, c) IN
  IF auth # "OK" THEN Throw(s, auth)
  ELSE IF id \notin DOMAIN s.proposals THEN Throw(s, "NOT_FOUND")
  ELSE IF s.proposals[id].authorId # c THEN Throw(s, "FORBIDDEN")
  ELSE IF s.proposals[id].status # "draft" THEN Throw(s, "BAD_REQUEST")
  ELSE LET updates == zodStrip(input, updateProposalInputKeys)
       IN Done([s EXCEPT !.proposals[id] = setColumns(@, updates)], none)

\* governance.withdraw (protectedProcedure): author, draft or active
governanceWithdraw(s, c, t, id) ==
  LET auth == requireUser(s, c) IN
  IF auth # "OK" THEN Throw(s, auth)
  ELSE IF id \notin DOMAIN s.proposals THEN Throw(s, "NOT_FOUND")
  ELSE IF s.proposals[id].authorId # c THEN Throw(s, "FORBIDDEN")
  ELSE IF s.proposals[id].status \notin {"draft", "active"} THEN Throw(s, "BAD_REQUEST")
  ELSE Done([s EXCEPT !.proposals[id].status = "withdrawn",
                      !.proposals[id].closedAt = t], none)

\* governance.vote's deadline check: votingEndsAt is set and lies before now
votingEnded(proposal, t) ==
  proposal.votingEndsAt # noTime /\ t > proposal.votingEndsAt

\* governance.vote (createMinRcProcedure(MIN_RC_TO_VOTE_ON_PROPOSAL))
governanceVote(s, c, t, proposalId, choice) ==
  LET auth == createMinRcProcedure(MIN_RC_TO_VOTE_ON_PROPOSAL, s, c) IN
  IF auth # "OK" THEN Throw(s, auth)
  ELSE IF proposalId \notin DOMAIN s.proposals THEN Throw(s, "NOT_FOUND")
  ELSE IF s.proposals[proposalId].status # "active" THEN Throw(s, "BAD_REQUEST")
  ELSE IF votingEnded(s.proposals[proposalId], t) THEN Throw(s, "BAD_REQUEST")
  ELSE IF \E v \in s.proposalVotes : v.proposalId = proposalId /\ v.voterId = c
       THEN Throw(s, "CONFLICT")
  ELSE
    LET voterRc == s.users[c].reputationCredits
        s1 == [s EXCEPT !.proposalVotes =
                 @ \cup {[proposalId |-> proposalId, voterId |-> c,
                          choice |-> choice, weightRc |-> voterRc]}]
        s2 == [s1 EXCEPT !.proposals[proposalId].totalRcWeight = @ + voterRc]
        s3 == IF choice = "for"
              THEN [s2 EXCEPT !.proposals[proposalId].votesFor = @ + 1]
              ELSE IF choice = "against"
              THEN [s2 EXCEPT !.proposals[proposalId].votesAgainst = @ + 1]
              ELSE [s2 EXCEPT !.proposals[proposalId].votesAbstain = @ + 1]
    IN Done(awardRc(s3, c, PROPOSAL_VOTE_CAST, "proposal_vote_cast",
                    "proposal", proposalId).s, voterRc)

\* an outcome rule under which a tie passes
passedOnTie(proposal) == proposal.votesFor >= proposal.votesAgainst

\* closeVoting's outcome: the vote counts, not the weights
passed(proposal) == proposal.votesFor > proposal.votesAgainst

\* governance.closeVoting (adminProcedure)
governanceCloseVoting(s, c, t, id) ==
  LET auth == adminProcedure(s, c) IN
  IF auth # "OK" THEN Throw(s, auth)
  ELSE IF id \notin DOMAIN s.proposals THEN Throw(s, "NOT_FOUND")
  ELSE IF s.proposals[id].status # "active" THEN Throw(s, "BAD_REQUEST")
  ELSE
    LET proposal == s.proposals[id]
        newStatus == IF passed(proposal) THEN "accepted" ELSE "rejected"
        s1 == [s EXCEPT !.proposals[id].status = newStatus,
                        !.proposals[id].closedAt = t]
    IN IF passed(proposal)
       THEN Done(awardRc(s1, proposal.authorId, PROPOSAL_PASSED,
                         "proposal_passed", "proposal", id).s, newStatus)
       ELSE Done(s1, newStatus)

(* ------------------------------------------------------------------ *)
(* userRouter                                                           *)
(* ------------------------------------------------------------------ *)
\* user.updateRole (adminProcedure)
userUpdateRole(s, c, userId, role) ==
  LET auth == adminProcedure(s, c) IN
  IF auth # "OK" THEN Throw(s, auth)
  ELSE IF userId \notin DOMAIN s.users THEN Throw(s, "NOT_FOUND")
  ELSE Done([s EXCEPT !.users[userId].role = role],
            [previousRole |-> s.users[userId].role, newRole |-> role])

\* user.adjustRc (adminProcedure): balance, level and ledger row in one handler
userAdjustRc(s, c, userId, amount) ==
  LET auth == adminProcedure(s, c) IN
  IF auth # "OK" THEN Throw(s, auth)
  ELSE IF userId \notin DOMAIN s.users THEN Throw(s, "NOT_FOUND")
  ELSE
    LET newBalance == s.users[userId].reputationCredits + amount
        newLevel == getContributorLevel(newBalance)
        s1 == [s EXCEPT !.users[userId].reputationCredits = newBalance,
                        !.users[userId].contributorLevel = newLevel]
        s2 == [s1 EXCEPT !.rcTransactions =
                 insert(@, [userId |-> userId, amount |-> amount,
                            reason |-> "manual_adjustment",
                            referenceType |-> none, referenceId |-> noId,
                            balanceAfter |-> newBalance])]
    IN Done(s2, newBalance)

(* ------------------------------------------------------------------ *)
(* reputationRouter                                                     *)
(* ------------------------------------------------------------------ *)
LEVEL_THRESHOLDS == [SILVER |-> 1000, GOLD |-> 5000, PLATINUM |-> 10000]

\* the values of the users.contributor_level column's enum type
contributorLevelEnum == {"newcomer", "contributor", "trusted", "expert", "master"}

\* syncLevel's if-chain from the highest threshold down
syncLevelNewLevel(rc) ==
  IF rc >= LEVEL_THRESHOLDS.PLATINUM THEN "platinum"
  ELSE IF rc >= LEVEL_THRESHOLDS.GOLD THEN "gold"
  ELSE IF rc >= LEVEL_THRESHOLDS.SILVER THEN "silver"
  ELSE "bronze"

\* reputation.syncLevel (protectedProcedure): the level column is written
\* only when the computed level differs from the stored one; the update
\* of an enum column with a value that is not of its type is an error of the
\* database, which the handler does not catch
reputationSyncLevel(s, c) ==
  LET auth == requireUser(s, c) IN
  IF auth # "OK" THEN Throw(s, auth)
  ELSE IF c \notin DOMAIN s.users THEN Throw(s, "NOT_FOUND")
  ELSE
    LET userData == s.users[c]
        newLevel == syncLevelNewLevel(userData.reputationCredits)
    IN IF newLevel # userData.contributorLevel
       THEN IF newLevel \notin contributorLevelEnum
            THEN Throw(s, "INTERNAL_SERVER_ERROR")
            ELSE Done([s EXCEPT !.users[c].contributorLevel = newLevel],
                      [leveledUp |-> TRUE, newLevel |-> newLevel,
                       previousLevel |-> userData.contributorLevel])
       ELSE Done(s, [leveledUp |-> FALSE, currentLevel |-> userData.contributorLevel])

(* ------------------------------------------------------------------ *)
(* Inline role guards of the legacy routers                             *)
(* ------------------------------------------------------------------ *)
\* resources.create (legacy resourcesRouter): "Role Guard"
legacyCreateRoleGuard(s, c) ==
  IF s.users[c].role # "teacher" /\ s.users[c].role # "admin" THEN "FORBIDDEN" ELSE "OK"

\* governance.finalizeExpired (legacy governance router)
finalizeExpiredRoleGuard(s, c) ==
  IF s.users[c].role # "admin" THEN "FORBIDDEN" ELSE "OK"

(* ------------------------------------------------------------------ *)
(* The handlers statement by statement: a request q runs from one       *)
(* awaited database statement to the next; each statement is applied    *)
(* to the database on its own (no handler opens a transaction), and     *)
(* what the request read earlier stays in its locals.  q.pc names the   *)
(* statement the request executes next; a step is that statement and    *)
(* the handler's code up to the next await                              *)
(* ------------------------------------------------------------------ *)
NoRequest == [op |-> none, pc |-> "idle", c |-> anon, id |-> noId, arg |-> none,
              input |-> <<>>, ctx |-> <<>>, t |-> 0, row |-> <<>>, vote |-> <<>>,
              newId |-> noId, i |-> 0, processed |-> 0, level |-> none,
              award |-> <<>>, currentRc |-> 0, ret |-> none, result |-> none]

Goto(s, q, pc) == [s |-> s, q |-> [q EXCEPT !.pc = pc]]
\* the reply: the handler's locals are gone, the result code is what is left
Fail(s, q, code) == [s |-> s, q |-> [NoRequest EXCEPT !.pc = "failed", !.result = code]]
Return(s, q) == [s |-> s, q |-> [NoRequest EXCEPT !.pc = "done", !.result = "OK"]]

\* the call of awardRc: its arguments are bound and its select comes next;
\* ret is where the handler goes on when awardRc has returned
callAwardRc(s, q, userId, amount, reason, referenceType, referenceId, ret) ==
  [s |-> s,
   q |-> [q EXCEPT !.pc = "awardRc_select",
                   !.ret = ret,
                   !.award = <<[userId |-> userId, amount |-> amount, reason |-> reason,
                                referenceType |-> referenceType,
                                referenceId |-> referenceId]>>]]

\* awardRc's statements without the insert into rc_transactions
awardRcStepNoRow(s, q) ==
  LET a == q.award[1]
      newBalance == q.currentRc + a.amount
  IN CASE q.pc = "awardRc_select" ->
            [s |-> s,
             q |-> [q EXCEPT !.currentRc = IF a.userId \in DOMAIN s.users
                                           THEN s.users[a.userId].reputationCredits
                                           ELSE 0,
                             !.pc = "awardRc_update"]]
       [] q.pc = "awardRc_update" ->
            Goto([s EXCEPT !.users = IF a.userId \in DOMAIN @
                                     THEN [@ EXCEPT ![a.userId].reputationCredits = newBalance]
                                     ELSE @],
                 q, "awardRc_insert")
       [] q.pc = "awardRc_insert" ->
            IF q.ret = "return" THEN Return(s, q) ELSE Goto(s, q, q.ret)

\* awardRc's three statements: select the balance, update it to the value
\* computed from what was selected, insert the ledger row
awardRcStep(s, q) ==
  LET a == q.award[1]
      newBalance == q.currentRc + a.amount
  IN CASE q.pc = "awardRc_select" ->
            [s |-> s,
             q |-> [q EXCEPT !.currentRc = IF a.userId \in DOMAIN s.users
                                           THEN s.users[a.userId].reputationCredits
                                           ELSE 0,
                             !.pc = "awardRc_update"]]
       [] q.pc = "awardRc_update" ->
            Goto([s EXCEPT !.users = IF a.userId \in DOMAIN @
                                     THEN [@ EXCEPT ![a.userId].reputationCredits = newBalance]
                                     ELSE @],
                 q, "awardRc_insert")
       [] q.pc = "awardRc_insert" ->
            IF a.userId \notin DOMAIN s.users THEN Fail(s, q, "INTERNAL_SERVER_ERROR")
            ELSE
            LET s1 == [s EXCEPT !.rcTransactions =
                         insert(@, [userId |-> a.userId, amount |-> a.amount,
                                    reason |-> a.reason,
                                    referenceType |-> a.referenceType,
                                    referenceId |-> a.referenceId,
                                    balanceAfter |-> newBalance])]
            IN IF q.ret = "return" THEN Return(s1, q) ELSE Goto(s1, q, q.ret)

\* resource.create
resourceCreateStep(s, q) ==
  CASE q.pc = "insert_resource" ->
         Goto([s EXCEPT !.resources = Append(@, NewResource(q.c, "pending"))],
              [q EXCEPT !.newId = Len(s.resources) + 1], "update_user")
    [] q.pc = "update_user" ->
         callAwardRc([s EXCEPT !.users[q.c].totalResourcesSubmitted = @ + 1],
                     q, q.c, RESOURCE_SUBMITTED, "resource_submitted", "resource",
                     q.newId, "return")
    [] OTHER -> awardRcStep(s, q)

\* resource.update
resourceUpdateStep(s, q) ==
  CASE q.pc = "select" ->
         IF q.id \notin DOMAIN s.resources THEN Fail(s, q, "NOT_FOUND")
         ELSE LET existing == s.resources[q.id]
                  isOwner == existing.contributorId = q.c
                  isModerator == updateIsModerator([users |-> [u \in {q.c} |-> q.ctx[1]]], q.c)
              IN IF ~isOwner /\ ~isModerator THEN Fail(s, q, "FORBIDDEN")
                 ELSE Goto(s, q, "update_resource")
    [] q.pc = "update_resource" ->
         Return([s EXCEPT !.resources =
                   IF q.id \in DOMAIN @
                   THEN [@ EXCEPT ![q.id] =
                           setColumns(@, zodStrip(q.input[1], updateResourceInputKeys))]
                   ELSE @], q)

\* resource.submitForReview
submitForReviewStep(s, q) ==
  CASE q.pc = "select" ->
         IF q.id \notin DOMAIN s.resources THEN Fail(s, q, "NOT_FOUND")
         ELSE IF s.resources[q.id].contributorId # q.c THEN Fail(s, q, "FORBIDDEN")
         ELSE IF s.resources[q.id].status # "draft" THEN Fail(s, q, "BAD_REQUEST")
         ELSE Goto(s, q, "update_resource")
    [] q.pc = "update_resource" ->
         Return([s EXCEPT !.resources[q.id].status = "pending"], q)

\* resource.trackView
trackViewStep(s, q) ==
  CASE q.pc = "insert_view" ->
         IF q.id \notin DOMAIN s.resources THEN Fail(s, q, "INTERNAL_SERVER_ERROR")
         ELSE Goto([s EXCEPT !.resourceViews =
                      insert(@, [resourceId |-> q.id,
                                 userId |-> IF q.c = anon THEN none ELSE q.c])],
                   q, "update_resource")
    [] q.pc = "update_resource" ->
         Return([s EXCEPT !.resources[q.id].viewCount = @ + 1], q)

\* resource.trackDownload
trackDownloadStep(s, q) ==
  CASE q.pc = "select" ->
         IF q.id \notin DOMAIN s.resources THEN Fail(s, q, "NOT_FOUND")
         ELSE Goto(s, [q EXCEPT !.row = <<s.resources[q.id]>>], "insert_download")
    [] q.pc = "insert_download" ->
         Goto([s EXCEPT !.resourceDownloads =
                 insert(@, [resourceId |-> q.id,
                            userId |-> IF q.c = anon THEN none ELSE q.c])],
              q, "update_resource")
    [] q.pc = "update_resource" ->
         Goto([s EXCEPT !.resources[q.id].downloadCount = @ + 1], q, "update_user")
    [] q.pc = "update_user" ->
         callAwardRc([s EXCEPT !.users[q.row[1].contributorId].totalDownloadsReceived = @ + 1],
                     q, q.row[1].contributorId, RESOURCE_DOWNLOAD,
                     "resource_upvoted", "resource", q.id, "return")
    [] OTHER -> awardRcStep(s, q)

\* the unique index on (resourceId, userId) rejects the insert of a second
\* row of the same user on the same resource
resourceVotesUniqueIdx(s, resourceId, userId) ==
  \E v \in s.resourceVotes : v.resourceId = resourceId /\ v.userId = userId

\* resource.vote; q.vote is existingVote as the handler selected it
resourceVoteStep(s, q) ==
  LET newValue == IF q.arg = "up" THEN 1 ELSE -1
      contributor == q.row[1].contributorId
  IN
  CASE q.pc = "select" ->
         IF q.id \notin DOMAIN s.resources THEN Fail(s, q, "NOT_FOUND")
         ELSE IF s.resources[q.id].contributorId = q.c THEN Fail(s, q, "BAD_REQUEST")
         ELSE Goto(s, [q EXCEPT !.row = <<s.resources[q.id]>>], "select_vote")
    [] q.pc = "select_vote" ->
         LET existing == existingVote(s, q.c, q.id)
             ev == CHOOSE v \in existing : TRUE
         IN IF q.arg = "remove"
            THEN IF existing # {} THEN Goto(s, [q EXCEPT !.vote = <<ev>>], "delete_vote")
                 ELSE Return(s, q)
            ELSE IF existing # {}
            THEN IF ev.value = newValue THEN Return(s, q)
                 ELSE Goto(s, [q EXCEPT !.vote = <<ev>>], "update_vote")
            ELSE Goto(s, q, "insert_vote")
    [] q.pc = "delete_vote" ->
         Goto([s EXCEPT !.resourceVotes =
                 {v \in @ : ~(v.resourceId = q.id /\ v.userId = q.c)}],
              q, "update_counts")
    [] q.pc = "update_vote" ->
         Goto([s EXCEPT !.resourceVotes =
                 {IF v.id = q.vote[1].id THEN [v EXCEPT !.value = newValue] ELSE v : v \in @}],
              q, "update_counts")
    [] q.pc = "insert_vote" ->
         IF resourceVotesUniqueIdx(s, q.id, q.c)
         THEN Fail(s, q, "INTERNAL_SERVER_ERROR")
         ELSE Goto([s EXCEPT !.resourceVotes =
                      @ \cup {[id |-> q.newId, resourceId |-> q.id, userId |-> q.c,
                               value |-> newValue]}],
                   q, "update_counts")
    [] q.pc = "update_counts" ->
         IF q.arg = "remove"
         THEN IF q.vote[1].value > 0
              THEN Return([s EXCEPT !.resources[q.id].upvoteCount = @ - 1,
                                    !.resources[q.id].netVotes = @ - 1], q)
              ELSE Return([s EXCEPT !.resources[q.id].downvoteCount = @ - 1,
                                    !.resources[q.id].netVotes = @ + 1], q)
         ELSE IF q.vote # <<>>
         THEN IF newValue > 0
              THEN callAwardRc([s EXCEPT !.resources[q.id].upvoteCount = @ + 1,
                                         !.resources[q.id].downvoteCount = @ - 1,
                                         !.resources[q.id].netVotes = @ + 2],
                               q, contributor,
                               RESOURCE_UPVOTE_RECEIVED - RESOURCE_DOWNVOTE_RECEIVED,
                               "resource_upvoted", "resource", q.id, "return")
              ELSE callAwardRc([s EXCEPT !.resources[q.id].upvoteCount = @ - 1,
                                         !.resources[q.id].downvoteCount = @ + 1,
                                         !.resources[q.id].netVotes = @ - 2],
                               q, contributor,
                               RESOURCE_DOWNVOTE_RECEIVED - RESOURCE_UPVOTE_RECEIVED,
                               "resource_downvoted", "resource", q.id, "return")
         ELSE IF newValue > 0
              THEN Goto([s EXCEPT !.resources[q.id].upvoteCount = @ + 1,
                                  !.resources[q.id].netVotes = @ + 1], q, "update_user")
              ELSE callAwardRc([s EXCEPT !.resources[q.id].downvoteCount = @ + 1,
                                         !.resources[q.id].netVotes = @ - 1],
                               q, contributor, RESOURCE_DOWNVOTE_RECEIVED,
                               "resource_downvoted", "resource", q.id, "return")
    [] q.pc = "update_user" ->
         callAwardRc([s EXCEPT !.users[contributor].totalUpvotesReceived = @ + 1],
                     q, contributor, RESOURCE_UPVOTE_RECEIVED,
                     "resource_upvoted", "resource", q.id, "return")
    [] OTHER -> awardRcStep(s, q)

\* moderation.createFlag; q.arg is the target type, q.id the target id
createFlagStep(s, q) ==
  CASE q.pc = "select" ->
         IF \E i \in DOMAIN s.moderationFlags :
              /\ s.moderationFlags[i].targetType = q.arg
              /\ s.moderationFlags[i].targetId = q.id
              /\ s.moderationFlags[i].reporterId = q.c
         THEN Fail(s, q, "CONFLICT")
         ELSE Goto(s, q, "insert_flag")
    [] q.pc = "insert_flag" ->
         callAwardRc([s EXCEPT !.moderationFlags =
                        Append(@, [targetType |-> q.arg, targetId |-> q.id,
                                   reporterId |-> q.c, status |-> "open",
                                   resolvedBy |-> none])],
                     q, q.c, FLAG_SUBMITTED, "flag_submitted", "flag",
                     Len(s.moderationFlags) + 1, "return")
    [] OTHER -> awardRcStep(s, q)

\* moderation.reviewResource
reviewResourceStep(s, q) ==
  CASE q.pc = "select" ->
         IF q.id \notin DOMAIN s.resources THEN Fail(s, q, "NOT_FOUND")
         ELSE IF s.resources[q.id].status # "pending" THEN Fail(s, q, "BAD_REQUEST")
         ELSE Goto(s, [q EXCEPT !.row = <<s.resources[q.id]>>], "update_resource")
    [] q.pc = "update_resource" ->
         LET s1 == [s EXCEPT !.resources[q.id].status =
                                IF q.arg = "approve" THEN "approved" ELSE "rejected",
                             !.resources[q.id].reviewedBy = q.c]
         IN IF q.arg = "approve" THEN Goto(s1, q, "update_user")
            ELSE callAwardRc(s1, q, q.row[1].contributorId, -RESOURCE_SUBMITTED,
                             "resource_rejected", "resource", q.id, "return")
    [] q.pc = "update_user" ->
         callAwardRc([s EXCEPT !.users[q.row[1].contributorId].totalResourcesApproved = @ + 1],
                     q, q.row[1].contributorId, RESOURCE_APPROVED,
                     "resource_approved", "resource", q.id, "return")
    [] OTHER -> awardRcStep(s, q)

\* the head of bulkReviewResources' for-loop: the next listed id is selected,
\* or the handler returns when the list is through
bulkNext(s, q) ==
  IF q.i > Len(q.input[1]) THEN Return(s, q) ELSE Goto(s, q, "select")

\* moderation.bulkReviewResources; q.input[1] is resourceIds, q.i the index
\* of the id the loop is at
bulkReviewResourcesStep(s, q) ==
  LET resourceId == q.input[1][q.i] IN
  CASE q.pc = "select" ->
         IF resourceId \notin DOMAIN s.resources
            \/ s.resources[resourceId].status # "pending"
         THEN bulkNext(s, [q EXCEPT !.i = @ + 1])
         ELSE Goto(s, [q EXCEPT !.row = <<s.resources[resourceId]>>], "update_resource")
    [] q.pc = "update_resource" ->
         LET s1 == [s EXCEPT !.resources[resourceId].status =
                                IF q.arg = "approve" THEN "approved" ELSE "rejected",
                             !.resources[resourceId].reviewedBy = q.c]
         IN IF q.arg = "approve" THEN Goto(s1, q, "update_user")
            ELSE callAwardRc(s1, q, q.row[1].contributorId, -RESOURCE_SUBMITTED,
                             "resource_rejected", "resource", resourceId, "loop")
    [] q.pc = "update_user" ->
         callAwardRc([s EXCEPT !.users[q.row[1].contributorId].totalResourcesApproved = @ + 1],
                     q, q.row[1].contributorId, RESOURCE_APPROVED,
                     "resource_approved", "resource", resourceId, "loop")
    [] OTHER ->
         LET n == awardRcStep(s, q)
         IN IF n.q.pc = "loop"
            THEN bulkNext(n.s, [n.q EXCEPT !.processed = @ + 1, !.i = @ + 1])
            ELSE n

\* moderation.claimFlag
claimFlagStep(s, q) ==
  CASE q.pc = "select" ->
         IF q.id \notin DOMAIN s.moderationFlags THEN Fail(s, q, "NOT_FOUND")
         ELSE IF s.moderationFlags[q.id].status # "open" THEN Fail(s, q, "BAD_REQUEST")
         ELSE Goto(s, q, "update_flag")
    [] q.pc = "update_flag" ->
         Return([s EXCEPT !.moderationFlags[q.id].status = "under_review"], q)

\* resolveFlag's last call: the moderator's own award
awardModerator(s, q) ==
  callAwardRc(s, q, q.c, FLAG_SUBMITTED, "moderation_action", "flag", q.id, "return")

\* moderation.resolveFlag; q.row is the flag as the handler selected it
resolveFlagStep(s, q) ==
  LET flag == q.row[1] IN
  CASE q.pc = "select" ->
         IF q.id \notin DOMAIN s.moderationFlags THEN Fail(s, q, "NOT_FOUND")
         ELSE IF s.moderationFlags[q.id].status \notin {"open", "under_review"}
         THEN Fail(s, q, "BAD_REQUEST")
         ELSE Goto(s, [q EXCEPT !.row = <<s.moderationFlags[q.id]>>], "update_flag")
    [] q.pc = "update_flag" ->
         LET s1 == [s EXCEPT !.moderationFlags[q.id].status =
                                IF q.arg = "upheld" THEN "resolved" ELSE "dismissed",
                             !.moderationFlags[q.id].resolvedBy = q.c]
         IN IF q.arg = "upheld"
            THEN callAwardRc(s1, q, flag.reporterId, FLAG_UPHELD, "flag_upheld",
                             "flag", q.id,
                             IF flag.targetType = "resource" THEN "select_resource"
                                                             ELSE "award_moderator")
            ELSE callAwardRc(s1, q, flag.reporterId, FLAG_DISMISSED, "flag_dismissed",
                             "flag", q.id, "award_moderator")
    [] q.pc = "select_resource" ->
         IF flag.targetId \in DOMAIN s.resources
            /\ s.resources[flag.targetId].status = "approved"
         THEN Goto(s, q, "archive_resource")
         ELSE awardModerator(s, q)
    [] q.pc = "archive_resource" ->
         awardModerator([s EXCEPT !.resources[flag.targetId].status = "archived"], q)
    [] OTHER ->
         LET n == awardRcStep(s, q)
         IN IF n.q.pc = "award_moderator" THEN awardModerator(n.s, n.q) ELSE n

\* governance.create; q.input[1] is votingDurationDays, q.t the handler's now
governanceCreateStep(s, q) ==
  CASE q.pc = "insert_proposal" ->
         callAwardRc([s EXCEPT !.proposals =
                        Append(@, [authorId |-> q.c, status |-> "active", title |-> "p0",
                                   snapshotRc |-> q.ctx[1].reputationCredits,
                                   votingEndsAt |-> q.t + q.input[1],
                                   closedAt |-> noTime,
                                   votesFor |-> 0, votesAgainst |-> 0, votesAbstain |-> 0,
                                   totalRcWeight |-> 0])],
                     q, q.c, PROPOSAL_CREATED, "proposal_created", "proposal",
                     Len(s.proposals) + 1, "return")
    [] OTHER -> awardRcStep(s, q)

\* governance.update
governanceUpdateStep(s, q) ==
  CASE q.pc = "select" ->
         IF q.id \notin DOMAIN s.proposals THEN Fail(s, q, "NOT_FOUND")
         ELSE IF s.proposals[q.id].authorId # q.c THEN Fail(s, q, "FORBIDDEN")
         ELSE IF s.proposals[q.id].status # "draft" THEN Fail(s, q, "BAD_REQUEST")
         ELSE Goto(s, q, "update_proposal")
    [] q.pc = "update_proposal" ->
         Return([s EXCEPT !.proposals[q.id] =
                   setColumns(@, zodStrip(q.input[1], updateProposalInputKeys))], q)

\* governance.withdraw; closedAt is the new Date() of the update's arguments
governanceWithdrawStep(s, q, t) ==
  CASE q.pc = "select" ->
         IF q.id \notin DOMAIN s.proposals THEN Fail(s, q, "NOT_FOUND")
         ELSE IF s.proposals[q.id].authorId # q.c THEN Fail(s, q, "FORBIDDEN")
         ELSE IF s.proposals[q.id].status \notin {"draft", "active"}
         THEN Fail(s, q, "BAD_REQUEST")
         ELSE Goto(s, [q EXCEPT !.t = t], "update_proposal")
    [] q.pc = "update_proposal" ->
         Return([s EXCEPT !.proposals[q.id].status = "withdrawn",
                          !.proposals[q.id].closedAt = q.t], q)

\* a proposal_votes table without its unique index: no insert is rejected
proposalVotesNoUniqueIdx(s, proposalId, voterId) == FALSE

\* the unique index on (proposalId, voterId) rejects the insert of a second
\* row of the same voter on the same proposal
proposalVotesUniqueIdx(s, proposalId, voterId) ==
  \E v \in s.proposalVotes : v.proposalId = proposalId /\ v.voterId = voterId

\* governance.vote; voterRc is ctx.user.reputationCredits
governanceVoteStep(s, q, t) ==
  LET voterRc == q.ctx[1].reputationCredits IN
  CASE q.pc = "select" ->
         IF q.id \notin DOMAIN s.proposals THEN Fail(s, q, "NOT_FOUND")
         ELSE IF s.proposals[q.id].status # "active" THEN Fail(s, q, "BAD_REQUEST")
         ELSE IF votingEnded(s.proposals[q.id], t) THEN Fail(s, q, "BAD_REQUEST")
         ELSE Goto(s, q, "select_vote")
    [] q.pc = "select_vote" ->
         IF \E v \in s.proposalVotes : v.proposalId = q.id /\ v.voterId = q.c
         THEN Fail(s, q, "CONFLICT")
         ELSE Goto(s, q, "insert_vote")
    [] q.pc = "insert_vote" ->
         IF proposalVotesUniqueIdx(s, q.id, q.c)
         THEN Fail(s, q, "INTERNAL_SERVER_ERROR")
         ELSE Goto([s EXCEPT !.proposalVotes =
                      @ \cup {[proposalId |-> q.id, voterId |-> q.c,
                               choice |-> q.arg, weightRc |-> voterRc]}],
                   q, "update_proposal")
    [] q.pc = "update_proposal" ->
         LET s1 == [s EXCEPT !.proposals[q.id].totalRcWeight = @ + voterRc]
             s2 == IF q.arg = "for"
                   THEN [s1 EXCEPT !.proposals[q.id].votesFor = @ + 1]
                   ELSE IF q.arg = "against"
                   THEN [s1 EXCEPT !.proposals[q.id].votesAgainst = @ + 1]
                   ELSE [s1 EXCEPT !.proposals[q.id].votesAbstain = @ + 1]
         IN callAwardRc(s2, q, q.c, PROPOSAL_VOTE_CAST, "proposal_vote_cast",
                        "proposal", q.id, "return")
    [] OTHER -> awardRcStep(s, q)

\* governance.closeVoting; q.row is the proposal as the handler selected it
closeVotingStep(s, q, t) ==
  CASE q.pc = "select" ->
         IF q.id \notin DOMAIN s.proposals THEN Fail(s, q, "NOT_FOUND")
         ELSE IF s.proposals[q.id].status # "active" THEN Fail(s, q, "BAD_REQUEST")
         ELSE Goto(s, [q EXCEPT !.row = <<s.proposals[q.id]>>, !.t = t], "update_proposal")
    [] q.pc = "update_proposal" ->
         LET proposal == q.row[1]
             s1 == [s EXCEPT !.proposals[q.id].status =
                                IF passed(proposal) THEN "accepted" ELSE "rejected",
                             !.proposals[q.id].closedAt = q.t]
         IN IF passed(proposal)
            THEN callAwardRc(s1, q, proposal.authorId, PROPOSAL_PASSED,
                             "proposal_passed", "proposal", q.id, "return")
            ELSE Return(s1, q)
    [] OTHER -> awardRcStep(s, q)

\* user.updateRole; q.arg is input.userId, q.input[1] the role
updateRoleStep(s, q) ==
  CASE q.pc = "select" ->
         IF q.arg \notin DOMAIN s.users THEN Fail(s, q, "NOT_FOUND")
         ELSE Goto(s, q, "update_user")
    [] q.pc = "update_user" ->
         Return([s EXCEPT !.users[q.arg].role = q.input[1]], q)

\* user.adjustRc; q.arg is input.userId, q.input[1] the amount
adjustRcStep(s, q) ==
  LET newBalance == q.row[1].reputationCredits + q.input[1] IN
  CASE q.pc = "select" ->
         IF q.arg \notin DOMAIN s.users THEN Fail(s, q, "NOT_FOUND")
         ELSE Goto(s, [q EXCEPT !.row = <<s.users[q.arg]>>], "update_user")
    [] q.pc = "update_user" ->
         Goto([s EXCEPT !.users[q.arg].reputationCredits = newBalance,
                        !.users[q.arg].contributorLevel = getContributorLevel(newBalance)],
              q, "insert_transaction")
    [] q.pc = "insert_transaction" ->
         Return([s EXCEPT !.rcTransactions =
                   insert(@, [userId |-> q.arg, amount |-> q.input[1],
                              reason |-> "manual_adjustment",
                              referenceType |-> none, referenceId |-> noId,
                              balanceAfter |-> newBalance])], q)

\* reputation.syncLevel
syncLevelStep(s, q) ==
  CASE q.pc = "select" ->
         IF q.c \notin DOMAIN s.users THEN Fail(s, q, "NOT_FOUND")
         ELSE LET userData == s.users[q.c]
                  newLevel == syncLevelNewLevel(userData.reputationCredits)
              IN IF newLevel # userData.contributorLevel
                 THEN Goto(s, [q EXCEPT !.level = newLevel], "update_user")
                 ELSE Return(s, q)
    [] q.pc = "update_user" ->
         IF q.level \notin contributorLevelEnum THEN Fail(s, q, "INTERNAL_SERVER_ERROR")
         ELSE Return([s EXCEPT !.users[q.c].contributorLevel = q.level], q)

\* the next statement of request q
requestStep(s, q, t) ==
  CASE q.op = "resource.create" -> resourceCreateStep(s, q)
    [] q.op = "resource.update" -> resourceUpdateStep(s, q)
    [] q.op = "resource.submitForReview" -> submitForReviewStep(s, q)
    [] q.op = "resource.trackView" -> trackViewStep(s, q)
    [] q.op = "resource.trackDownload" -> trackDownloadStep(s, q)
    [] q.op = "resource.vote" -> resourceVoteStep(s, q)
    [] q.op = "moderation.createFlag" -> createFlagStep(s, q)
    [] q.op = "moderation.reviewResource" -> reviewResourceStep(s, q)
    [] q.op = "moderation.bulkReviewResources" -> bulkReviewResourcesStep(s, q)
    [] q.op = "moderation.claimFlag" -> claimFlagStep(s, q)
    [] q.op = "moderation.resolveFlag" -> resolveFlagStep(s, q)
    [] q.op = "governance.create" -> governanceCreateStep(s, q)
    [] q.op = "governance.update" -> governanceUpdateStep(s, q)
    [] q.op = "governance.withdraw" -> governanceWithdrawStep(s, q, t)
    [] q.op = "governance.vote" -> governanceVoteStep(s, q, t)
    [] q.op = "governance.closeVoting" -> closeVotingStep(s, q, t)
    [] q.op = "user.updateRole" -> updateRoleStep(s, q)
    [] q.op = "user.adjustRc" -> adjustRcStep(s, q)
    [] q.op = "reputation.syncLevel" -> syncLevelStep(s, q)

\* the middleware of each procedure, run when the request arrives
requestGuard(s, op, c) ==
  CASE op = "resource.create" -> teacherProcedure(s, c)
    [] op = "resource.update" -> requireUser(s, c)
    [] op = "resource.submitForReview" -> teacherProcedure(s, c)
    [] op = "resource.trackView" -> "OK"
    [] op = "resource.trackDownload" -> "OK"
    [] op = "resource.vote" -> requireUser(s, c)
    [] op = "moderation.createFlag" -> createMinRcProcedure(MIN_RC_TO_FLAG, s, c)
    [] op = "moderation.reviewResource" -> moderatorProcedure(s, c)
    [] op = "moderation.bulkReviewResources" -> moderatorProcedure(s, c)
    [] op = "moderation.claimFlag" -> moderatorProcedure(s, c)
    [] op = "moderation.resolveFlag" -> moderatorProcedure(s, c)
    [] op = "governance.create" -> createMinRcProcedure(MIN_RC_TO_CREATE_PROPOSAL, s, c)
    [] op = "governance.update" -> requireUser(s, c)
    [] op = "governance.withdraw" -> requireUser(s, c)
    [] op = "governance.vote" -> createMinRcProcedure(MIN_RC_TO_VOTE_ON_PROPOSAL, s, c)
    [] op = "governance.closeVoting" -> adminProcedure(s, c)
    [] op = "user.updateRole" -> adminProcedure(s, c)
    [] op = "user.adjustRc" -> adminProcedure(s, c)
    [] op = "reputation.syncLevel" -> requireUser(s, c)

\* the request as it stands when its handler is entered: the context holds
\* the caller's row, newId the nanoid() of a vote row it may insert, t the
\* handler's clock reading before its first statement
arrive(s, call, t, heldIds) ==
  LET q == [NoRequest EXCEPT
              !.op = call.op, !.c = call.c, !.id = call.id, !.arg = call.arg,
              !.input = call.input,
              !.ctx = IF call.c \in DOMAIN s.users THEN <<s.users[call.c]>> ELSE <<>>,
              !.t = t,
              !.newId = IF call.op = "resource.vote"
                        THEN freshId({v.id : v \in s.resourceVotes} \cup heldIds) ELSE noId,
              !.i = IF call.op = "moderation.bulkReviewResources" THEN 1 ELSE 0,
              !.pc = CASE call.op = "resource.create" -> "insert_resource"
                       [] call.op = "governance.create" -> "insert_proposal"
                       [] call.op = "resource.trackView" -> "insert_view"
                       [] OTHER -> "select"]
  IN IF call.op = "moderation.bulkReviewResources" THEN bulkNext(s, q).q ELSE q

\* a request run alone from where it stands to its return or throw
RECURSIVE runAlone(_, _, _)
runAlone(s, q, t) ==
  IF q.pc \in {"done", "failed"} THEN [s |-> s, q |-> q]
  ELSE LET n == requestStep(s, q, t) IN runAlone(n.s, n.q, t)

\* a call served with no other request between its statements: the
\* middleware's refusal, the parser's, or the database and result the
\* handler leaves
serve(s, call, t) ==
  LET auth == requestGuard(s, call.op, call.c) IN
  IF auth # "OK" THEN [s |-> s, result |-> auth]
  ELSE IF inputSchema(call.op, call.input) # "OK"
  THEN [s |-> s, result |-> "BAD_REQUEST"]
  ELSE LET n == runAlone(s, arrive(s, call, t, {}), t)
       IN [s |-> n.s, result |-> n.q.result]

Call(op, c, id, arg, input) ==
  [op |-> op, c |-> c, id |-> id, arg |-> arg, input |-> input]

(* ------------------------------------------------------------------ *)
(* The state machine: requests arrive and run statement by statement    *)
(* ------------------------------------------------------------------ *)
MaxBulk == 2
MaxTime == 4
MaxPageRows == 3
MaxFetch == 4
MaxCatalogue == 3
MaxViews == 1

ResourceIds == 1..(MaxResources + 1)       \* one id that never exists
FlagIds == 1..(MaxFlags + 1)
ProposalIds == 1..(MaxProposals + 1)
UpdateInputs == { [title |-> "t1"],
                  [title |-> "t1", status |-> "approved"],
                  [status |-> "draft"] }
VoteValues == {"up", "down", "remove"}
FlagTargets == {<<"resource", id>> : id \in 1..MaxResources} \cup {<<"comment", 1>>}
Decisions == {"approve", "reject"}
BulkLists == UNION {[1..n -> ResourceIds] : n \in 0..MaxBulk}
Resolutions == {"upheld", "dismissed"}
VotingDurations == {2, 3}        \* one the parser refuses, one it accepts
Choices == {"for", "against", "abstain"}
ProposalUpdateInputs == { [title |-> "p1"], [title |-> "p1", status |-> "active"] }

\* the requests being processed at the same time, each between two of its
\* awaited database statements
ReqIds == {"q1", "q2"}

\* one request at a time: the next arrives when the last has returned
OneAtATime == {"q1"}

Active(q) == q.pc \notin {"idle", "done", "failed"}

\* no request is between two of its statements
Quiescent == \A q \in ReqIds : ~Active(inflight[q])

\* the rows of the tables that the exploration bounds
sizes(s) == [resources |-> Len(s.resources),
             moderationFlags |-> Len(s.moderationFlags),
             proposals |-> Len(s.proposals),
             rcTransactions |-> BagCardinality(s.rcTransactions),
             resourceViews |-> BagCardinality(s.resourceViews)]

\* the rows request q would still insert if it ran alone from where it stands
growth(s, q, t) ==
  LET before == sizes(s)
      after == sizes(runAlone(s, q, t).s)
  IN [k \in DOMAIN before |-> IF Active(q) THEN after[k] - before[k] ELSE 0]

\* the tables grow no further than the bounds: a request that would insert
\* into a table is taken up only while the table has room for its rows and
\* for those of the requests in progress
WithinBounds(q, request) ==
  LET mine == growth(cur, request, now)
      size == sizes(cur)
      MaxRows == [resources |-> MaxResources, moderationFlags |-> MaxFlags,
                  proposals |-> MaxProposals, rcTransactions |-> MaxLedger,
                  resourceViews |-> MaxViews]
  IN \A k \in DOMAIN size :
       \/ mine[k] = 0
       \/ \A r \in ReqIds \ {q} :
            size[k] + mine[k] + growth(cur, inflight[r], now)[k] <= MaxRows[k]

\* the vote ids that requests in progress hold: the id each drew for the row
\* it may insert and the id of the row it selected, which a later nanoid()
\* does not give again
heldIds ==
  ({inflight[r].newId : r \in ReqIds} \ {noId})
    \cup {inflight[r].vote[1].id : r \in {x \in ReqIds : inflight[x].vote # <<>>}}

\* a request arrives on a free slot and passes its middleware and the
\* parser of its input: its handler is entered and stands before its first
\* statement
Begin(q, call) ==
  /\ ~Active(inflight[q])
  /\ requestGuard(cur, call.op, call.c) = "OK"
  /\ inputSchema(call.op, call.input) = "OK"
  /\ LET request == arrive(cur, call, now, heldIds)
     IN /\ WithinBounds(q, request)
        /\ inflight' = [inflight EXCEPT ![q] = request]
  /\ UNCHANGED <<users, resources, resourceVotes, resourceDownloads, resourceViews,
                 moderationFlags, proposals, proposalVotes, rcTransactions, now, scroll>>

\* request q executes its next statement
Step(q) ==
  /\ Active(inflight[q])
  /\ LET n == requestStep(cur, inflight[q], now) IN
     /\ users' = n.s.users
     /\ resources' = n.s.resources
     /\ resourceVotes' = n.s.resourceVotes
     /\ resourceDownloads' = n.s.resourceDownloads
     /\ resourceViews' = n.s.resourceViews
     /\ moderationFlags' = n.s.moderationFlags
     /\ proposals' = n.s.proposals
     /\ proposalVotes' = n.s.proposalVotes
     /\ rcTransactions' = n.s.rcTransactions
     /\ inflight' = [inflight EXCEPT ![q] = n.q]
  /\ UNCHANGED <<now, scroll>>

\* the clock of new Date()
Tick ==
  /\ now < MaxTime
  /\ now' = now + 1
  /\ UNCHANGED <<users, resources, resourceVotes, resourceDownloads, resourceViews,
                 moderationFlags, proposals, proposalVotes, rcTransactions, scroll, inflight>>

\* the calls of the procedures
ResourceCreate(q, c) == Begin(q, Call("resource.create", c, noId, none, <<>>))

ResourceUpdate(q, c, id, input) ==
  Begin(q, Call("resource.update", c, id, none, <<input>>))

SubmitForReview(q, c, id) ==
  Begin(q, Call("resource.submitForReview", c, id, none, <<>>))

TrackView(q, c, id) == Begin(q, Call("resource.trackView", c, id, none, <<>>))

TrackDownload(q, c, id) ==
  Begin(q, Call("resource.trackDownload", c, id, none, <<>>))

ResourceVote(q, c, id, value) ==
  Begin(q, Call("resource.vote", c, id, value, <<>>))

CreateFlag(q, c, target) ==
  Begin(q, Call("moderation.createFlag", c, target[2], target[1], <<>>))

ReviewResource(q, c, id, decision) ==
  Begin(q, Call("moderation.reviewResource", c, id, decision, <<>>))

BulkReviewResources(q, c, resourceIds, decision) ==
  Begin(q, Call("moderation.bulkReviewResources", c, noId, decision, <<resourceIds>>))

ClaimFlag(q, c, id) == Begin(q, Call("moderation.claimFlag", c, id, none, <<>>))

ResolveFlag(q, c, flagId, resolution) ==
  Begin(q, Call("moderation.resolveFlag", c, flagId, resolution, <<>>))

GovernanceCreate(q, c, votingDurationDays) ==
  Begin(q, Call("governance.create", c, noId, none, <<votingDurationDays>>))

GovernanceUpdate(q, c, id, input) ==
  Begin(q, Call("governance.update", c, id, none, <<input>>))

GovernanceWithdraw(q, c, id) ==
  Begin(q, Call("governance.withdraw", c, id, none, <<>>))

GovernanceVote(q, c, proposalId, choice) ==
  Begin(q, Call("governance.vote", c, proposalId, choice, <<>>))

GovernanceCloseVoting(q, c, id) ==
  Begin(q, Call("governance.closeVoting", c, id, none, <<>>))

UpdateRole(q, c, userId, role) ==
  Begin(q, Call("user.updateRole", c, noId, userId, <<role>>))

AdjustRc(q, c, userId, amount) ==
  Begin(q, Call("user.adjustRc", c, noId, userId, <<amount>>))

SyncLevel(q, c) == Begin(q, Call("reputation.syncLevel", c, noId, none, <<>>))

\* the database after construction: the four accounts with the column
\* defaults, every other table empty
Fresh ==
  [users |-> [u \in UserIds |->
                [role |-> CASE u = "u1" -> "user" [] u = "u2" -> "teacher"
                            [] u = "u3" -> "moderator" [] OTHER -> "admin",
                 reputationCredits |-> 0, contributorLevel |-> "newcomer",
                 totalResourcesSubmitted |-> 0, totalResourcesApproved |-> 0,
                 totalUpvotesReceived |-> 0, totalDownloadsReceived |-> 0]],
   resources |-> <<>>, resourceVotes |-> {}, resourceDownloads |-> EmptyBag,
   resourceViews |-> EmptyBag,
   moderationFlags |-> <<>>, proposals |-> <<>>, proposalVotes |-> {},
   rcTransactions |-> EmptyBag]

Load(s) ==
  /\ users = s.users
  /\ resources = s.resources
  /\ resourceVotes = s.resourceVotes
  /\ resourceDownloads = s.resourceDownloads
  /\ resourceViews = s.resourceViews
  /\ moderationFlags = s.moderationFlags
  /\ proposals = s.proposals
  /\ proposalVotes = s.proposalVotes
  /\ rcTransactions = s.rcTransactions

\* no request in progress, the listing clients before their first request,
\* the clock at its start
AtRest ==
  /\ now = 0
  /\ scroll = [proc |-> none, status |-> none, sort |-> "newest", limit |-> 1,
               pages |-> <<>>, cursor |-> noId, calls |-> 0, answer |-> none]
  /\ inflight = [q \in ReqIds |-> NoRequest]

Init == Load(Fresh) /\ AtRest

\* the database after a teacher submitted k resources and a moderator
\* approved the first j of them in one bulk review
RECURSIVE Submitted(_)
Submitted(k) == IF k = 0 THEN Fresh ELSE resourceCreate(Submitted(k - 1), "u2").s

Catalogue(k, j) ==
  moderationBulkReviewResources(Submitted(k), "u3", [i \in 1..j |-> i], "approve").s

\* catalogues of up to MaxCatalogue rows, one that holds a row more than the
\* scroll client's page, and three approved resources of which the first
\* was voted up, the second downloaded and the third viewed
InitPagination ==
  /\ \/ \E k \in 0..MaxCatalogue : \E j \in 0..k : Load(Catalogue(k, j))
     \/ Load(Catalogue(ClientLimit + 1, ClientLimit + 1))
     \/ Load(resourceTrackView(
                resourceTrackDownload(
                  resourceVote(Catalogue(3, 3), "u1", 1, "up").s, "u1", 2).s,
                anon, 3).s)
  /\ AtRest

\* the accounts after an admin granted u3 100 RC and u2 45 RC
WithGrants ==
  userAdjustRc(userAdjustRc(Fresh, "u4", "u3", 100).s, "u4", "u2", 45).s

\* the accounts after the grants, or the same with one proposal row inserted
\* with the status column's default
InitLifecycle ==
  /\ \/ Load(WithGrants)
     \/ Load([WithGrants EXCEPT !.proposals =
          <<[authorId |-> "u2", status |-> "draft", title |-> "p0", snapshotRc |-> 0,
             votingEndsAt |-> noTime, closedAt |-> noTime,
             votesFor |-> 0, votesAgainst |-> 0, votesAbstain |-> 0, totalRcWeight |-> 0]>>])
  /\ AtRest

\* one approved resource of a teacher, to be downloaded
InitConcurrentAwards == Load(Catalogue(1, 1)) /\ AtRest

\* an active proposal of u3, who was granted 100 RC; u2 was granted 45 RC
InitConcurrentVotes == Load(governanceCreate(WithGrants, "u3", 0, 3).s) /\ AtRest

InitGovernance == Load(WithGrants) /\ AtRest

\* a teacher's pending resource, flagged by its contributor
InitConcurrentFlags ==
  Load(moderationCreateFlag(Submitted(1), "u2", "resource", 1).s) /\ AtRest

\* an active proposal with one vote for it, or one pending resource
InitConcurrentRewards ==
  /\ \/ Load(governanceVote(governanceCreate(userAdjustRc(Fresh, "u4", "u3", 100).s,
                                               "u3", 0, 3).s,
                              "u3", 0, 1, "for").s)
     \/ Load(Submitted(1))
  /\ AtRest

\* the database after the listed contributors each submitted a resource
RECURSIVE SubmittedBy(_)
SubmittedBy(owners) ==
  IF owners = <<>> THEN Fresh
  ELSE resourceCreate(SubmittedBy(SubSeq(owners, 1, Len(owners) - 1)),
                      owners[Len(owners)]).s

\* a review queue of up to MaxPageRows pending resources
InitReviewQueue ==
  /\ \E owners \in UNION {[1..n -> {"u2", "u3"}] : n \in 0..MaxPageRows} :
        Load(SubmittedBy(owners))
  /\ AtRest

\* the database after a teacher and a moderator each submitted a resource
InitVoting == Load(resourceCreate(resourceCreate(Fresh, "u2").s, "u3").s) /\ AtRest

\* the fresh database, or one resource row with the status column's default
InitModeration ==
  /\ \/ Load(Fresh)
     \/ Load([Fresh EXCEPT !.resources = <<NewResource("u2", "draft")>>])
  /\ AtRest

\* a call of a listing by a client that keeps the pages it got: a page
\* is appended and its nextCursor kept; a refused call leaves the client
\* with the pages and the cursor it had
Fetch(proc, status, sort, limit, r) ==
  /\ scroll' = [proc |-> proc, status |-> status, sort |-> sort, limit |-> limit,
                pages |-> IF r.result = "OK" THEN Append(scroll.pages, r.out.items)
                          ELSE scroll.pages,
                cursor |-> IF r.result = "OK" THEN r.out.nextCursor ELSE scroll.cursor,
                calls |-> scroll.calls + 1, answer |-> r.result]
  /\ UNCHANGED <<users, resources, resourceVotes, resourceDownloads, resourceViews,
                 moderationFlags, proposals, proposalVotes, rcTransactions, now, inflight>>

\* the keys of the appRouter: the routers a request path can name
appRouter ==
  {"system", "auth", "waitlist", "resource", "collection", "governance",
   "user", "moderation", "metrics", "reputation"}

(* the infinite-scroll client: its first request, without a cursor, to the *)
(* path resources.getAll.  The appRouter has no key resources, so the      *)
(* request is answered NOT_FOUND before any handler runs; the client asks  *)
(* for a next page only with the nextCursor of a page it got, and it gets  *)
(* none                                                                    *)
ScrollStart ==
  /\ scroll.calls = 0
  /\ Fetch("resources.getAll", none, "newest", ClientLimit,
           IF "resources" \in appRouter THEN resourcesGetAll(cur, ClientLimit)
           ELSE Throw(cur, "NOT_FOUND"))

(* a caller of resource.browse that follows the cursor protocol: no cursor *)
(* first, then the nextCursor of the last page, while there is one         *)
BrowseStart(status, sort, limit) ==
  /\ scroll.calls = 0
  /\ Fetch("resource.browse", status, sort, limit,
           resourceBrowse(cur, status, sort, limit, noId))

BrowseNext ==
  /\ scroll.proc = "resource.browse"
  /\ scroll.calls < MaxFetch
  /\ scroll.cursor # noId
  /\ Fetch(scroll.proc, scroll.status, scroll.sort, scroll.limit,
           resourceBrowse(cur, scroll.status, scroll.sort, scroll.limit,
                          scroll.cursor))

\* the callers the exploration lets call each procedure
Contributors == {"u2"}
Moderators == {"u3"}
Admins == {"u4"}

\* resource lifecycle and moderation: a visitor, a user, a teacher and a
\* moderator try every procedure
ModerationCalls(q) ==
  \/ \E c \in Callers \ Admins : ResourceCreate(q, c)
  \/ \E c \in Callers \ Admins, id \in ResourceIds, input \in UpdateInputs :
        ResourceUpdate(q, c, id, input)
  \/ \E c \in Callers \ Admins, id \in ResourceIds : SubmitForReview(q, c, id)
  \/ \E c \in Callers \ Admins, target \in FlagTargets : CreateFlag(q, c, target)
  \/ \E c \in Callers \ Admins, id \in ResourceIds, decision \in Decisions :
        ReviewResource(q, c, id, decision)
  \/ \E c \in Callers \ Admins, ids \in BulkLists, decision \in Decisions :
        BulkReviewResources(q, c, ids, decision)
  \/ \E c \in Callers \ Admins, id \in FlagIds : ClaimFlag(q, c, id)
  \/ \E c \in Callers \ Admins, id \in FlagIds, resolution \in Resolutions :
        ResolveFlag(q, c, id, resolution)

NextModeration ==
  \/ \E q \in OneAtATime : ModerationCalls(q)
  \/ \E q \in OneAtATime : Step(q)

\* moderation while an admin changes a user's role: the account u1 is made
\* teacher or moderator and user again, and uploads and moderates in between
NextRoles ==
  \/ \E q \in OneAtATime, c \in Admins, role \in {"user", "teacher", "moderator"} :
        UpdateRole(q, c, "u1", role)
  \/ \E q \in OneAtATime, c \in {"u1", "u2"} : ResourceCreate(q, c)
  \/ \E q \in OneAtATime, c \in {"u1", "u3"}, id \in ResourceIds, decision \in Decisions :
        ReviewResource(q, c, id, decision)
  \/ \E q \in OneAtATime, c \in {"u1"}, decision \in Decisions :
        BulkReviewResources(q, c, <<1>>, decision)
  \/ \E q \in OneAtATime, c \in Contributors, target \in FlagTargets :
        CreateFlag(q, c, target)
  \/ \E q \in OneAtATime, c \in {"u1", "u3"}, id \in FlagIds : ClaimFlag(q, c, id)
  \/ \E q \in OneAtATime, c \in {"u1", "u3"}, id \in FlagIds, resolution \in Resolutions :
        ResolveFlag(q, c, id, resolution)
  \/ \E q \in OneAtATime : Step(q)

\* governance: proposals, votes, closing
GovernanceCalls(q) ==
  \/ \E c \in Callers, d \in VotingDurations : GovernanceCreate(q, c, d)
  \/ \E c \in Callers, id \in ProposalIds : GovernanceWithdraw(q, c, id)
  \/ \E c \in Callers, id \in ProposalIds, choice \in Choices :
        GovernanceVote(q, c, id, choice)
  \/ \E c \in Callers, id \in ProposalIds : GovernanceCloseVoting(q, c, id)

NextGovernance ==
  \/ \E q \in OneAtATime : GovernanceCalls(q)
  \/ \E q \in OneAtATime : Step(q)
  \/ Tick

\* the proposal lifecycle: the governance procedures and governance.update
NextLifecycle ==
  \/ NextGovernance
  \/ \E q \in OneAtATime, c \in Callers, id \in ProposalIds,
        input \in ProposalUpdateInputs : GovernanceUpdate(q, c, id, input)

\* the procedures that change reputation credits, each called by users
\* who pass its guard
RcCalls(q) ==
  \/ \E c \in Contributors : ResourceCreate(q, c)
  \/ \E c \in {anon}, id \in 1..MaxResources : TrackDownload(q, c, id)
  \/ \E c \in {"u1"}, id \in 1..MaxResources, value \in VoteValues :
        ResourceVote(q, c, id, value)
  \/ \E c \in Contributors, target \in FlagTargets : CreateFlag(q, c, target)
  \/ \E c \in Moderators, id \in 1..MaxResources, decision \in Decisions :
        ReviewResource(q, c, id, decision)
  \/ \E c \in Moderators, ids \in [1..MaxBulk -> 1..MaxResources], decision \in Decisions :
        BulkReviewResources(q, c, ids, decision)
  \/ \E c \in Moderators, id \in 1..MaxFlags, resolution \in Resolutions :
        ResolveFlag(q, c, id, resolution)
  \/ \E c \in Moderators, d \in VotingDurations : GovernanceCreate(q, c, d)
  \/ \E c \in Moderators, id \in 1..MaxProposals, choice \in Choices :
        GovernanceVote(q, c, id, choice)
  \/ \E c \in Admins, id \in 1..MaxProposals : GovernanceCloseVoting(q, c, id)
  \/ \E c \in Admins, u \in Moderators, a \in {MIN_RC_TO_CREATE_PROPOSAL} :
        AdjustRc(q, c, u, a)

NextRc ==
  \/ \E q \in OneAtATime : RcCalls(q)
  \/ \E q \in OneAtATime : Step(q)

\* requests processed at the same time: downloads and views of one resource
NextConcurrentAwards ==
  \/ \E q \in ReqIds, c \in {anon, "u1"}, id \in ResourceIds : TrackDownload(q, c, id)
  \/ \E q \in ReqIds, c \in {anon}, id \in ResourceIds : TrackView(q, c, id)
  \/ \E q \in ReqIds : Step(q)

\* requests processed at the same time: votes on one proposal
NextConcurrentVotes ==
  \/ \E q \in ReqIds, c \in {"u2", "u3"}, id \in ProposalIds, choice \in Choices :
        GovernanceVote(q, c, id, choice)
  \/ \E q \in ReqIds : Step(q)

\* requests processed at the same time: closing a proposal, reviewing a resource
NextConcurrentRewards ==
  \/ \E q \in ReqIds, c \in Admins, id \in ProposalIds : GovernanceCloseVoting(q, c, id)
  \/ \E q \in ReqIds, c \in Moderators \cup Admins, id \in ResourceIds, d \in Decisions :
        ReviewResource(q, c, id, d)
  \/ \E q \in ReqIds : Step(q)

\* requests processed at the same time: claiming and resolving a flag
NextConcurrentFlags ==
  \/ \E q \in ReqIds, c \in Moderators, id \in FlagIds : ClaimFlag(q, c, id)
  \/ \E q \in ReqIds, c \in Admins, id \in FlagIds, resolution \in Resolutions :
        ResolveFlag(q, c, id, resolution)
  \/ \E q \in ReqIds : Step(q)

\* requests processed at the same time: a vote, a withdrawal and the closing
\* of one proposal
NextConcurrentGovernance ==
  \/ \E q \in ReqIds, c \in Contributors, id \in ProposalIds, choice \in Choices :
        GovernanceVote(q, c, id, choice)
  \/ \E q \in ReqIds, c \in Moderators, id \in ProposalIds : GovernanceWithdraw(q, c, id)
  \/ \E q \in ReqIds, c \in Admins, id \in ProposalIds : GovernanceCloseVoting(q, c, id)
  \/ \E q \in ReqIds : Step(q)

\* working through a review queue, one resource at a time or in bulk
NextReviewQueue ==
  \/ \E q \in OneAtATime, c \in Moderators, id \in 1..(MaxPageRows + 1), decision \in Decisions :
        ReviewResource(q, c, id, decision)
  \/ \E q \in OneAtATime, c \in Moderators, ids \in UNION {[1..n -> 1..(MaxPageRows + 1)] : n \in 0..MaxBulk}, decision \in Decisions :
        BulkReviewResources(q, c, ids, decision)
  \/ \E q \in OneAtATime : Step(q)

\* listing a catalogue that nobody writes to
NextPagination ==
  \/ ScrollStart
  \/ \E status \in {none, "pending"}, limit \in {1, 2},
        sort \in {"newest", "oldest", "popular", "highest_rated", "most_downloaded"} :
        BrowseStart(status, sort, limit)
  \/ BrowseNext

\* voting on resources: a user and a contributor cast, change and remove votes
\* on two resources and on an id that never exists
NextVoting ==
  \/ \E q \in OneAtATime, c \in {"u1", "u3"}, id \in 1..3, value \in VoteValues :
        ResourceVote(q, c, id, value)
  \/ \E q \in OneAtATime : Step(q)

\* levels: an admin moves a balance across the thresholds, its holder syncs
NextReputation ==
  \/ \E q \in OneAtATime, c \in Admins, u \in {"u2", "ghost"}, a \in {1000, 5000, -1} :
        AdjustRc(q, c, u, a)
  \/ \E q \in OneAtATime, c \in Contributors \cup {anon} : SyncLevel(q, c)
  \/ \E q \in OneAtATime : Step(q)

\* every procedure, called by anyone, while other requests are in progress
Next ==
  \/ \E q \in ReqIds : ModerationCalls(q) \/ GovernanceCalls(q) \/ RcCalls(q)
  \/ \E q \in ReqIds, c \in Callers, id \in ProposalIds, input \in ProposalUpdateInputs :
        GovernanceUpdate(q, c, id, input)
  \/ \E q \in ReqIds, c \in Callers, id \in ResourceIds : TrackDownload(q, c, id)
  \/ \E q \in ReqIds, c \in Callers, id \in ResourceIds : TrackView(q, c, id)
  \/ \E q \in ReqIds, c \in Callers, u \in UserIds \cup {"ghost"},
        role \in {"user", "teacher", "moderator", "admin"} : UpdateRole(q, c, u, role)
  \/ \E q \in ReqIds, c \in Callers, id \in ResourceIds, value \in VoteValues :
        ResourceVote(q, c, id, value)
  \/ \E q \in ReqIds, c \in Callers, u \in {"u2", "u3", "ghost"}, a \in {100, 45} :
        AdjustRc(q, c, u, a)
  \/ \E q \in ReqIds, c \in Callers : SyncLevel(q, c)
  \/ \E q \in ReqIds : Step(q)
  \/ Tick
  \/ NextPagination

Spec == Init /\ [][Next]_vars
SpecModeration == InitModeration /\ [][NextModeration]_vars
SpecRoles == Init /\ [][NextRoles]_vars
SpecGovernance == InitGovernance /\ [][NextGovernance]_vars
SpecRc == Init /\ [][NextRc]_vars
SpecPagination == InitPagination /\ [][NextPagination]_vars
SpecReputation == Init /\ [][NextReputation]_vars
SpecVoting == InitVoting /\ [][NextVoting]_vars
SpecLifecycle == InitLifecycle /\ [][NextLifecycle]_vars
SpecReviewQueue == InitReviewQueue /\ [][NextReviewQueue]_vars
SpecConcurrentAwards == InitConcurrentAwards /\ [][NextConcurrentAwards]_vars
SpecConcurrentVotes == InitConcurrentVotes /\ [][NextConcurrentVotes]_vars
SpecConcurrentRewards == InitConcurrentRewards /\ [][NextConcurrentRewards]_vars
SpecConcurrentFlags == InitConcurrentFlags /\ [][NextConcurrentFlags]_vars
SpecConcurrentGovernance == InitConcurrentVotes /\ [][NextConcurrentGovernance]_vars

(* ------------------------------------------------------------------ *)
(* Properties                                                           *)
(* ------------------------------------------------------------------ *)
IsModerator(c) == c \in UserIds /\ users[c].role \in {"moderator", "admin"}

\* the role the caller of request q had when the request was made
InvokedAs(q, roles) == inflight[q].ctx # <<>> /\ inflight[q].ctx[1].role \in roles

\* the ledger rows of user u that the step inserted
Added(u) == RowsOf(rcTransactions', u) (-) RowsOf(rcTransactions, u)

\* the rows can be put in an order in which each one records one write of the
\* balance: the first starts from `from`, each next one from the balance the
\* previous one left, and the last one leaves `to`
RECURSIVE Chain(_, _, _)
Chain(rows, from, to) ==
  IF DOMAIN rows = {} THEN from = to
  ELSE \E r \in DOMAIN rows :
         /\ r.balanceAfter = from + r.amount
         /\ Chain(rows (-) SetToBag({r}), r.balanceAfter, to)


\* request q executes a statement in the step
Stepping(q) == Active(inflight[q]) /\ inflight'[q] # inflight[q]

\* the requests of one of the procedures ops that execute their statement pc
\* in the step
Stepper(ops, pc) ==
  {q \in ReqIds : Stepping(q) /\ inflight[q].op \in ops /\ inflight[q].pc = pc}

\* the request was refused with code and left every table as it was
Refused(r, code) == r.result = code /\ r.s = cur

\* the ledger row of an award of amount to user u that left balance
LedgerRow(u, amount, reason, referenceType, referenceId, balance) ==
  [userId |-> u, amount |-> amount, reason |-> reason, referenceType |-> referenceType,
   referenceId |-> referenceId, balanceAfter |-> balance]

\* a call served alone leaves what the handler leaves and returns what it returns
agree(h, call) ==
  LET r == serve(cur, call, now) IN r.result = h.result /\ r.s = h.s

\* the request's next statement is the insert of a ledger row (awardRc's
\* or adjustRc's)
AboutToInsert(q) == q.pc \in {"awardRc_insert", "insert_transaction"}

\* the user, amount and balance of the row that request will insert
PendingRow(q) ==
  IF q.pc = "awardRc_insert"
  THEN [userId |-> q.award[1].userId, amount |-> q.award[1].amount,
        balanceAfter |-> q.currentRc + q.award[1].amount]
  ELSE [userId |-> q.arg, amount |-> q.input[1],
        balanceAfter |-> q.row[1].reputationCredits + q.input[1]]

C1_BalanceIsLedgerSum ==
  Quiescent =>
    \A u \in UserIds :
      /\ users[u].reputationCredits = SumAmounts(RowsOf(rcTransactions, u))
      /\ Chain(RowsOf(rcTransactions, u), 0, users[u].reputationCredits)

C1_EachChangeOneRow ==
  \A u \in UserIds :
    LET before == users[u].reputationCredits
        after == users'[u].reputationCredits
    IN /\ RowsOf(rcTransactions, u) \sqsubseteq RowsOf(rcTransactions', u)
       /\ after # before =>
            /\ Added(u) = EmptyBag
            /\ \E q \in ReqIds :
                 /\ Stepping(q)
                 /\ AboutToInsert(inflight'[q])
                 /\ PendingRow(inflight'[q]) =
                      [userId |-> u, amount |-> after - before, balanceAfter |-> after]
       /\ Added(u) # EmptyBag =>
            /\ after = before
            /\ BagCardinality(Added(u)) = 1
            /\ \E q \in ReqIds, r \in DOMAIN Added(u) :
                 /\ Stepping(q)
                 /\ AboutToInsert(inflight[q])
                 /\ PendingRow(inflight[q]) =
                      [userId |-> u, amount |-> r.amount, balanceAfter |-> before]
                 /\ r.balanceAfter = before

\* C1: starting from 0 RC and an empty ledger, with the RC-changing
\* procedures executed one request at a time, whenever no request is in
\* progress every user's reputationCredits equals the sum of the amounts of
\* that user's rc_transactions rows (which can be ordered so that each
\* balanceAfter is the previous one plus the amount); no ledger row is ever
\* removed; every statement that writes a balance is followed, as the next
\* statement of the same request, by the insert of exactly one ledger row of
\* that user carrying the amount of the change and the balance it left.
C1_LedgerCompleteHistory ==
  []C1_BalanceIsLedgerSum /\ [][C1_EachChangeOneRow]_vars

\* C1 witness: a moderator resolved a teacher's flag, so one request wrote
\* two balances, and the ledger holds rows of three routers
C1_Witness ==
  /\ Quiescent
  /\ \E r \in DOMAIN rcTransactions : r.reason = "moderation_action" /\ r.userId = "u3"
  /\ \E r \in DOMAIN rcTransactions : r.reason = "flag_upheld" /\ r.userId = "u2"
  /\ \E r \in DOMAIN rcTransactions : r.reason = "resource_submitted" /\ r.userId = "u2"
  /\ \E r \in DOMAIN rcTransactions : r.reason = "manual_adjustment" /\ r.userId = "u3"
  /\ users["u3"].reputationCredits = SumAmounts(RowsOf(rcTransactions, "u3"))
  /\ users["u2"].reputationCredits = SumAmounts(RowsOf(rcTransactions, "u2"))
  /\ users["u2"].reputationCredits > 0

\* level is a level of CONTRIBUTOR_LEVELS whose range [min, max] contains rc
InRange(level, rc) ==
  \E i \in DOMAIN CONTRIBUTOR_LEVELS :
    /\ CONTRIBUTOR_LEVELS[i].level = level
    /\ rc >= CONTRIBUTOR_LEVELS[i].min
    /\ (CONTRIBUTOR_LEVELS[i].inf \/ rc <= CONTRIBUTOR_LEVELS[i].max)

\* C2 (as claimed): in every state reached by RC-changing procedures each
\* user's contributorLevel is the level whose range contains the user's
\* reputationCredits (balances below zero, which no range contains, aside).
C2_LevelFollowsCredits ==
  \A u \in UserIds :
    users[u].reputationCredits >= 0
      => InRange(users[u].contributorLevel, users[u].reputationCredits)


IsEducator(c) == c \in UserIds /\ users[c].role \in {"teacher", "moderator", "admin"}

C3_Step ==
  /\ DOMAIN resources \subseteq DOMAIN resources'
  /\ \A id \in DOMAIN resources' :
       IF id \notin DOMAIN resources
       THEN /\ resources'[id].status = "pending"
            /\ \E q \in Stepper({"resource.create"}, "insert_resource") :
                 inflight[q].c = resources'[id].contributorId
       ELSE LET old == resources[id].status
                new == resources'[id].status
            IN \/ new = old
               \/ /\ old = "draft" /\ new = "pending"
                  /\ \E q \in Stepper({"resource.submitForReview"}, "update_resource") :
                       inflight[q].id = id /\ inflight[q].c = resources[id].contributorId
               \/ /\ old = "pending" /\ new \in {"approved", "rejected"}
                  /\ \E q \in Stepper({"moderation.reviewResource",
                                       "moderation.bulkReviewResources"}, "update_resource") :
                       InvokedAs(q, {"moderator", "admin"})
               \/ /\ old = "approved" /\ new = "archived"
                  /\ \E q \in Stepper({"moderation.resolveFlag"}, "archive_resource") :
                       /\ inflight[q].arg = "upheld"
                       /\ inflight[q].row[1].targetType = "resource"
                       /\ inflight[q].row[1].targetId = id

\* C3 (as claimed): a resource's status changes only along: created as
\* pending by resource.create; draft -> pending by its contributor's
\* submitForReview; pending -> approved or rejected by a moderator's review;
\* approved -> archived when a flag on it is upheld.  No other statement
\* (resource.update with a status key included) changes a status, no row
\* disappears, and approved, rejected and archived are left in no other way.
C3_StatusTransitions == [][C3_Step]_vars

C4_Refused ==
  \A c \in Callers :
    LET r == resourceCreate(cur, c) IN
    /\ agree(r, Call("resource.create", c, noId, none, <<>>))
    /\ c = anon => Refused(r, "UNAUTHORIZED")
    /\ (c \in UserIds /\ users[c].role = "user") => Refused(r, "FORBIDDEN")
    /\ r.result = "OK" => IsEducator(c)

C4_NewRowsByEducators ==
  \A id \in (DOMAIN resources') \ (DOMAIN resources) :
    \E q \in Stepper({"resource.create"}, "insert_resource") :
      /\ inflight[q].c = resources'[id].contributorId
      /\ InvokedAs(q, {"teacher", "moderator", "admin"})

\* C4: resource.create succeeds only for a caller whose role is teacher,
\* moderator or admin; for a caller of role user it answers FORBIDDEN and for
\* an unauthenticated caller UNAUTHORIZED, leaving every table as it was (no
\* resource row, no ledger row, no balance or totalResourcesSubmitted
\* change); and every resource row that appears is inserted by a
\* resource.create request of an educator.
C4_UploadsRestricted == []C4_Refused /\ [][C4_NewRowsByEducators]_vars

\* C4 witness: a teacher's resource.create has returned (the row, the
\* counter, the award), and the same call by the user account is refused
C4_Witness ==
  /\ Quiescent
  /\ \E id \in DOMAIN resources :
       resources[id].contributorId = "u2" /\ resources[id].status = "pending"
  /\ users["u2"].totalResourcesSubmitted = 1
  /\ users["u2"].reputationCredits = RESOURCE_SUBMITTED
  /\ resourceCreate(cur, "u1").result = "FORBIDDEN"
  /\ resourceCreate(cur, anon).result = "UNAUTHORIZED"

NotModerators == {c \in UserIds : users[c].role \in {"user", "teacher"}}

C5_Refused ==
  \A c \in NotModerators :
    /\ \A id \in ResourceIds, d \in Decisions :
         LET r == moderationReviewResource(cur, c, id, d) IN
         /\ Refused(r, "FORBIDDEN")
         /\ agree(r, Call("moderation.reviewResource", c, id, d, <<>>))
    /\ \A ids \in BulkLists, d \in Decisions :
         LET r == moderationBulkReviewResources(cur, c, ids, d) IN
         /\ Refused(r, "FORBIDDEN")
         /\ agree(r, Call("moderation.bulkReviewResources", c, noId, d, <<ids>>))
    /\ \A f \in FlagIds :
         LET r == moderationClaimFlag(cur, c, f) IN
         /\ Refused(r, "FORBIDDEN")
         /\ agree(r, Call("moderation.claimFlag", c, f, none, <<>>))
    /\ \A f \in FlagIds, res \in Resolutions :
         LET r == moderationResolveFlag(cur, c, f, res) IN
         /\ Refused(r, "FORBIDDEN")
         /\ agree(r, Call("moderation.resolveFlag", c, f, res, <<>>))

C5_ModeratedByModerators ==
  /\ \A id \in DOMAIN resources' :
       LET old == IF id \in DOMAIN resources THEN resources[id].status ELSE none
           new == resources'[id].status
       IN (new # old /\ new \in {"approved", "rejected"})
            => \E q \in Stepper({"moderation.reviewResource",
                                 "moderation.bulkReviewResources"}, "update_resource") :
                 /\ InvokedAs(q, {"moderator", "admin"})
                 /\ resources'[id].reviewedBy = inflight[q].c
  /\ \A f \in DOMAIN moderationFlags' :
       LET old == IF f \in DOMAIN moderationFlags THEN moderationFlags[f].status ELSE none
           new == moderationFlags'[f].status
       IN /\ (new # old /\ new \in {"resolved", "dismissed"})
               => \E q \in Stepper({"moderation.resolveFlag"}, "update_flag") :
                    /\ InvokedAs(q, {"moderator", "admin"})
                    /\ inflight[q].id = f
                    /\ moderationFlags'[f].resolvedBy = inflight[q].c
          /\ (new # old /\ new = "under_review")
               => \E q \in Stepper({"moderation.claimFlag"}, "update_flag") :
                    InvokedAs(q, {"moderator", "admin"}) /\ inflight[q].id = f

\* C5: a resource becomes approved or rejected, and a flag becomes
\* under_review, resolved or dismissed, only in a statement of a
\* reviewResource, bulkReviewResources, claimFlag or resolveFlag request
\* whose caller was a moderator or admin when the request was made, and
\* who is recorded as the reviewer; the four procedures called by a user or a
\* teacher answer FORBIDDEN and leave every table as it was.
C5_OnlyModeratorsModerate ==
  []C5_Refused /\ [][C5_ModeratedByModerators]_vars

\* C5 witness: the account u1 reviewed a resource while it was a moderator
\* and is a user again, a flag was claimed, and u1 is now refused
C5_Witness ==
  /\ Quiescent
  /\ users["u1"].role = "user"
  /\ \E id \in DOMAIN resources :
       resources[id].status \in {"approved", "rejected"} /\ resources[id].reviewedBy = "u1"
  /\ \E f \in DOMAIN moderationFlags : moderationFlags[f].status = "under_review"
  /\ moderationResolveFlag(cur, "u1", 1, "upheld").result = "FORBIDDEN"

\* position of a role in the hierarchy user < teacher < moderator < admin
Rank(role) == CHOOSE i \in DOMAIN roleEnum : roleEnum[i] = role

RoleGuards == {"teacherProcedure", "moderatorProcedure", "adminProcedure",
               "resource.update", "resources.create", "governance.finalizeExpired"}

Passes(g, c) ==
  CASE g = "teacherProcedure" -> teacherProcedure(cur, c) = "OK"
    [] g = "moderatorProcedure" -> moderatorProcedure(cur, c) = "OK"
    [] g = "adminProcedure" -> adminProcedure(cur, c) = "OK"
    [] g = "resource.update" -> updateIsModerator(cur, c)
    [] g = "resources.create" -> legacyCreateRoleGuard(cur, c) = "OK"
    [] g = "governance.finalizeExpired" -> finalizeExpiredRoleGuard(cur, c) = "OK"

\* C6 (as claimed): for every role-guarded procedure, if a caller of some
\* role passes the guard then a caller of every higher role passes it too.
C6_GuardsMonotone ==
  \A g \in RoleGuards : \A a, b \in UserIds :
    (Rank(users[a].role) < Rank(users[b].role) /\ Passes(g, a)) => Passes(g, b)


C7_Refused ==
  \A c \in UserIds, d \in VotingDurations :
    LET r == governanceCreate(cur, c, now, d) IN
    /\ agree(r, Call("governance.create", c, noId, none, <<d>>))
    /\ users[c].reputationCredits < 100 => Refused(r, "FORBIDDEN")
    /\ r.result = "OK" => users[c].reputationCredits >= 100

C7_Created ==
  \A c \in UserIds, d \in VotingDurations :
    LET r == governanceCreate(cur, c, now, d)
        id == Len(proposals) + 1
        row == LedgerRow(c, -50, "proposal_created", "proposal", id,
                         users[c].reputationCredits - 50)
    IN r.result = "OK" =>
         /\ Len(r.s.proposals) = Len(proposals) + 1
         /\ SubSeq(r.s.proposals, 1, Len(proposals)) = proposals
         /\ r.s.proposals[id].status = "active"
         /\ r.s.proposals[id].authorId = c
         /\ r.s.users[c].reputationCredits = users[c].reputationCredits - 50
         /\ \A u \in UserIds \ {c} :
              r.s.users[u].reputationCredits = users[u].reputationCredits
         /\ r.s.rcTransactions = rcTransactions (+) SetToBag({row})

\* C7: governance.create succeeds only for a caller holding at least 100 RC;
\* a successful call creates exactly one proposal, with status active,
\* lowers the author's balance by exactly 50 and inserts exactly one ledger
\* row, of amount -50 and reason proposal_created, that references the new
\* proposal; a caller holding fewer than 100 RC gets FORBIDDEN and every
\* table stays as it was.
C7_SpendToPropose == C7_Refused /\ C7_Created

\* C7 witness: a proposal is active whose author held exactly 100 RC and
\* now holds 50 (and so may not create another), and an account without RC
\* is refused
C7_Witness ==
  /\ Quiescent
  /\ \E id \in DOMAIN proposals :
       /\ proposals[id].status = "active"
       /\ proposals[id].snapshotRc = 100
       /\ users[proposals[id].authorId].reputationCredits = 50
       /\ \E r \in DOMAIN rcTransactions :
            r.reason = "proposal_created" /\ r.amount = -50 /\ r.referenceId = id
  /\ governanceCreate(cur, "u1", now, 3).result = "FORBIDDEN"

WeightOf(id, choice) ==
  LET votes == {v \in proposalVotes : v.proposalId = id /\ v.choice = choice}
  IN SumAmounts([row \in {[voterId |-> v.voterId, amount |-> v.weightRc] : v \in votes}
                    |-> 1])

C8_ClosedByWeight ==
  \A id \in DOMAIN proposals :
    (proposals[id].status = "active" /\ proposals'[id].status \in {"accepted", "rejected"})
      => (proposals'[id].status = "accepted"
            <=> WeightOf(id, "for") > WeightOf(id, "against"))

\* C8 (as claimed): when voting on a proposal is closed it is accepted
\* exactly when the sum of weightRc of its 'for' votes exceeds the sum of
\* weightRc of its 'against' votes.
C8_WeightedVoting == [][C8_ClosedByWeight]_vars


\* the award a request is executing, when it is one of amount documented
\* for the reason at hand
AwardTo(q) == inflight[q].award[1].userId

C10_TableAmounts ==
  \A q \in ReqIds :
    LET r == inflight[q]
        expected == IF r.op = "resource.create" THEN 10 ELSE 50
        reason == IF r.op = "resource.create" THEN "resource_submitted"
                                               ELSE "resource_approved"
    IN (/\ Stepping(q)
        /\ \/ r.op = "resource.create"
           \/ /\ r.op \in {"moderation.reviewResource", "moderation.bulkReviewResources"}
              /\ r.arg = "approve")
         => /\ r.pc = "awardRc_update" =>
                 users'[AwardTo(q)].reputationCredits
                   = users[AwardTo(q)].reputationCredits + expected
            /\ r.pc = "awardRc_insert" =>
                 /\ BagCardinality(Added(AwardTo(q))) = 1
                 /\ \A row \in DOMAIN Added(AwardTo(q)) :
                      row.amount = expected /\ row.reason = reason

\* C10 (as claimed): a successful resource submission awards its contributor
\* +10 RC and the approval of that resource a further +50 RC, each recorded
\* as one ledger row of exactly that amount.
C10_ContributionRewards == [][C10_TableAmounts]_vars

\* every id the scroll client was given so far, in the order it got them
RECURSIVE Flatten(_)
Flatten(pages) == IF pages = <<>> THEN <<>> ELSE Head(pages) \o Flatten(Tail(pages))

Fetched == Flatten(scroll.pages)


\* the rows the listing of the scroll client has to deliver
Matching ==
  IF scroll.proc = "resources.getAll"
  THEN {id \in DOMAIN resources : resources[id].status = "approved"}
  ELSE browseMatches(cur, scroll.status)

\* C9 (as claimed): with fixed filters and sort and no writes, starting with
\* no cursor and calling the listing (resource.browse, resources.getAll)
\* again with the nextCursor it returned yields every matching row exactly
\* once, each page holding at most limit items; every call is answered
\* with a page; whenever a nextCursor is returned some matching row is
\* still to come, and when none is returned every matching row was given.
C9_PaginationComplete ==
  scroll.calls > 0 =>
    /\ scroll.answer = "OK"
    /\ \A i, j \in DOMAIN Fetched : i # j => Fetched[i] # Fetched[j]
    /\ \A p \in DOMAIN scroll.pages : Len(scroll.pages[p]) <= scroll.limit
    /\ scroll.cursor = noId =>
         {Fetched[i] : i \in DOMAIN Fetched} = Matching
    /\ scroll.cursor # noId =>
         \E id \in Matching : \A i \in DOMAIN Fetched : Fetched[i] # id

C11_TableAmounts ==
  \A q \in ReqIds :
    LET r == inflight[q]
        amount == IF r.arg = "up" THEN 5 ELSE -2
        contributor == r.row[1].contributorId
    IN (Stepping(q) /\ r.op = "resource.vote" /\ r.arg \in {"up", "down"} /\ r.vote = <<>>)
         => /\ r.pc = "awardRc_update" =>
                 users'[contributor].reputationCredits
                   = users[contributor].reputationCredits + amount
            /\ r.pc = "awardRc_insert" =>
                 /\ Added(contributor) =
                      SetToBag({LedgerRow(contributor, amount,
                                          IF r.arg = "up" THEN "resource_upvoted"
                                                          ELSE "resource_downvoted",
                                          "resource", r.id,
                                          users[contributor].reputationCredits)})
                 /\ Added(r.c) = EmptyBag

\* C11 (as claimed): a new upvote on a resource changes its contributor's
\* reputationCredits by +5 and a new downvote by -2, each recorded as one
\* ledger row of exactly that amount for the contributor and none for the
\* voter.
C11_VoteRewards == [][C11_TableAmounts]_vars

\* the level the README's threshold table gives a balance
DocumentedLevel(rc) ==
  CASE rc < 1000 -> "bronze"
    [] rc >= 1000 /\ rc < 5000 -> "silver"
    [] rc >= 5000 /\ rc < 10000 -> "gold"
    [] OTHER -> "platinum"

\* C12: in every reachable state, reputation.syncLevel called by any user
\* succeeds and leaves that user's contributorLevel at the documented level
\* of the user's current reputationCredits (bronze below 1000, silver below
\* 5000, gold below 10000, platinum from 10000); it changes nothing but that
\* one column, writes exactly when the level differs from the stored one
\* and reports leveledUp exactly then; a second call right after it changes
\* nothing and reports leveledUp false.
C12_SyncLevel ==
  \A c \in UserIds :
    LET r == reputationSyncLevel(cur, c)
        again == reputationSyncLevel(r.s, c)
        level == DocumentedLevel(users[c].reputationCredits)
    IN /\ agree(r, Call("reputation.syncLevel", c, noId, none, <<>>))
       /\ r.result = "OK"
       /\ r.s = [cur EXCEPT !.users[c].contributorLevel = level]
       /\ r.out.leveledUp <=> (level # users[c].contributorLevel)
       /\ r.out.leveledUp <=> (r.s # cur)
       /\ again.result = "OK"
       /\ again.s = r.s
       /\ ~again.out.leveledUp


VotesOn(id, value) == {v \in resourceVotes : v.resourceId = id /\ v.value = value}

C13_Counters ==
  \A id \in DOMAIN resources :
    /\ resources[id].upvoteCount = Cardinality(VotesOn(id, 1))
    /\ resources[id].downvoteCount = Cardinality(VotesOn(id, -1))
    /\ resources[id].netVotes = resources[id].upvoteCount - resources[id].downvoteCount
    /\ resources[id].upvoteCount >= 0
    /\ resources[id].downvoteCount >= 0

\* C13: with resource.vote calls (up, down, remove) by any callers on any
\* resources executed one request at a time, whenever no request is in
\* progress, for every resource upvoteCount is the number of its
\* resource_votes rows of value +1, downvoteCount the number of value -1,
\* netVotes is upvoteCount - downvoteCount and neither count is negative;
\* and no (resource, user) pair ever has more than one vote row.
C13_CountersMatchVotes ==
  /\ Quiescent => C13_Counters
  /\ \A v, w \in resourceVotes :
       (v.resourceId = w.resourceId /\ v.userId = w.userId) => v = w

\* C13 witness: an upvote on the first resource was later removed (its
\* contributor's received total stays at 1 with no vote left on it) and a
\* downvote on the second was changed to an upvote
C13_Witness ==
  /\ Quiescent
  /\ users["u2"].totalUpvotesReceived = 1
  /\ resources[1].upvoteCount = 0
  /\ VotesOn(1, 1) = {} /\ VotesOn(1, -1) = {}
  /\ \E r \in DOMAIN rcTransactions :
       r.amount = RESOURCE_UPVOTE_RECEIVED - RESOURCE_DOWNVOTE_RECEIVED /\ r.referenceId = 2
  /\ resources[2].upvoteCount = 1 /\ resources[2].downvoteCount = 0

\* C19 (as claimed): in every reachable state, when a user who has no vote
\* on a resource votes on it (up or down) and then removes the vote, the
\* contributor's reputationCredits and totalUpvotesReceived are what they
\* were before the vote.
C19_RemoveUndoesVote ==
  \A c \in UserIds, id \in DOMAIN resources, value \in {"up", "down"} :
    LET voted == resourceVote(cur, c, id, value)
        removed == resourceVote(voted.s, c, id, "remove")
        contributor == resources[id].contributorId
    IN (existingVote(cur, c, id) = {} /\ voted.result = "OK") =>
         /\ removed.result = "OK"
         /\ removed.s.users[contributor].reputationCredits
              = users[contributor].reputationCredits
         /\ removed.s.users[contributor].totalUpvotesReceived
              = users[contributor].totalUpvotesReceived


\* the caller passes governance.vote's minimum-RC guard
MayVote(c) == createMinRcProcedure(MIN_RC_TO_VOTE_ON_PROPOSAL, cur, c) = "OK"

C16_OnlyWhileOpen ==
  \A c \in UserIds, id \in ProposalIds, choice \in Choices :
    LET r == governanceVote(cur, c, now, id, choice) IN
    /\ agree(r, Call("governance.vote", c, id, choice, <<>>))
    /\ r.result = "OK" =>
         /\ id \in DOMAIN proposals
         /\ proposals[id].status = "active"
         /\ now <= proposals[id].votingEndsAt
    /\ (MayVote(c) /\ id \notin DOMAIN proposals) => Refused(r, "NOT_FOUND")
    /\ (MayVote(c) /\ id \in DOMAIN proposals
          /\ (proposals[id].status # "active" \/ now > proposals[id].votingEndsAt))
         => Refused(r, "BAD_REQUEST")

Tally(p) == <<p.votesFor, p.votesAgainst, p.votesAbstain, p.totalRcWeight>>

Terminal == {"accepted", "rejected", "withdrawn"}

C16_ClosedFrozen ==
  \A id \in DOMAIN proposals :
    proposals[id].status \in Terminal => Tally(proposals'[id]) = Tally(proposals[id])

\* C16 (as claimed): governance.vote succeeds only if the proposal exists,
\* its status is active and the current time is not after votingEndsAt; a
\* caller who passes the RC guard otherwise gets NOT_FOUND (no such
\* proposal) or BAD_REQUEST (not active, or deadline passed) and every table
\* stays as it was; and once a proposal is withdrawn, accepted or rejected
\* its four tally columns never change again.
C16_VotesOnlyWhileOpen == []C16_OnlyWhileOpen /\ [][C16_ClosedFrozen]_vars

\* the award closeVoting owes the author of an accepted proposal
PassedRow(id, author) ==
  LedgerRow(author, 100, "proposal_passed", "proposal", id,
            users[author].reputationCredits + 100)

C18_NotActiveRefused ==
  \A c \in UserIds, id \in DOMAIN proposals :
    (users[c].role = "admin" /\ proposals[id].status # "active")
      => Refused(governanceCloseVoting(cur, c, now, id), "BAD_REQUEST")

C18_Close ==
  \A c \in UserIds, id \in DOMAIN proposals :
    LET r == governanceCloseVoting(cur, c, now, id)
        author == proposals[id].authorId
        accepted == proposals[id].votesFor > proposals[id].votesAgainst
    IN /\ agree(r, Call("governance.closeVoting", c, id, none, <<>>))
       /\ (users[c].role = "admin" /\ proposals[id].status = "active") =>
            /\ r.result = "OK"
            /\ r.s.proposals[id].status = (IF accepted THEN "accepted" ELSE "rejected")
            /\ r.s.rcTransactions = IF accepted
                                    THEN rcTransactions (+) SetToBag({PassedRow(id, author)})
                                    ELSE rcTransactions
            /\ \A u \in UserIds :
                 r.s.users[u].reputationCredits =
                   users[u].reputationCredits + (IF accepted /\ u = author THEN 100 ELSE 0)

\* C18: closeVoting by an admin on an active proposal sets it to accepted
\* exactly when votesFor > votesAgainst and to rejected otherwise (ties and
\* zero votes reject, abstentions do not count); the author gains 100 RC
\* with one proposal_passed ledger row exactly when it was accepted, and
\* otherwise no balance and no ledger row changes; closeVoting by an admin
\* on a proposal that is not active answers BAD_REQUEST and changes nothing.
C18_CloseByCounts == C18_NotActiveRefused /\ C18_Close

\* C18 witness: one proposal was accepted and its author holds the award,
\* and closing it again is refused
C18_Witness ==
  /\ Quiescent
  /\ \E id \in DOMAIN proposals :
       /\ proposals[id].status = "accepted"
       /\ proposals[id].votesFor > proposals[id].votesAgainst
       /\ \E r \in DOMAIN rcTransactions :
            /\ r.reason = "proposal_passed" /\ r.userId = proposals[id].authorId
            /\ r.referenceId = id /\ r.amount = 100
       /\ governanceCloseVoting(cur, "u4", now, id).result = "BAD_REQUEST"

C17_Step ==
  /\ DOMAIN proposals \subseteq DOMAIN proposals'
  /\ \A id \in DOMAIN proposals' :
       IF id \notin DOMAIN proposals
       THEN /\ proposals'[id].status = "active"
            /\ proposals'[id].closedAt = noTime
            /\ \E q \in Stepper({"governance.create"}, "insert_proposal") :
                 inflight[q].c = proposals'[id].authorId
       ELSE LET old == proposals[id]
                new == proposals'[id]
            IN /\ \/ new.status = old.status /\ new.closedAt = old.closedAt
                  \/ /\ old.status \in {"draft", "active"} /\ new.status = "withdrawn"
                     /\ new.closedAt # noTime
                     /\ \E q \in Stepper({"governance.withdraw"}, "update_proposal") :
                          inflight[q].id = id /\ inflight[q].c = old.authorId
                  \/ /\ old.status = "active" /\ new.status \in {"accepted", "rejected"}
                     /\ new.closedAt # noTime
                     /\ \E q \in Stepper({"governance.closeVoting"}, "update_proposal") :
                          inflight[q].id = id /\ users[inflight[q].c].role = "admin"
               /\ new.title # old.title =>
                    /\ old.status = "draft"
                    /\ \E q \in Stepper({"governance.update"}, "update_proposal") :
                         inflight[q].id = id /\ inflight[q].c = old.authorId

C17_Guards ==
  /\ \A id \in DOMAIN proposals :
       proposals[id].closedAt # noTime <=> proposals[id].status \in Terminal
  /\ \A c \in UserIds, id \in DOMAIN proposals :
       LET p == proposals[id] IN
       /\ \A input \in ProposalUpdateInputs :
            LET r == governanceUpdate(cur, c, id, input) IN
            /\ agree(r, Call("governance.update", c, id, none, <<input>>))
            /\ r.result = "OK" <=> (c = p.authorId /\ p.status = "draft")
            /\ r.result # "OK" => r.s = cur
            /\ r.s.proposals[id].status = p.status
       /\ agree(governanceWithdraw(cur, c, now, id),
                Call("governance.withdraw", c, id, none, <<>>))
       /\ c # p.authorId => Refused(governanceWithdraw(cur, c, now, id), "FORBIDDEN")
       /\ (c = p.authorId /\ p.status \in Terminal)
            => Refused(governanceWithdraw(cur, c, now, id), "BAD_REQUEST")
       /\ users[c].role # "admin"
            => Refused(governanceCloseVoting(cur, c, now, id), "FORBIDDEN")
       /\ (users[c].role = "admin" /\ p.status # "active")
            => Refused(governanceCloseVoting(cur, c, now, id), "BAD_REQUEST")

\* C17 (as claimed): a proposal is created active; its status changes only
\* to withdrawn, by its author's withdraw from draft or active, or to
\* accepted/rejected, by an admin's closeVoting from active; accepted,
\* rejected and withdrawn are never left; closedAt is set in exactly the
\* statements that enter one of them (and is set exactly for the proposals
\* in one of them); governance.update succeeds exactly for the author of a
\* draft and never changes the status; withdraw by another user and
\* closeVoting by a non-admin answer FORBIDDEN, withdraw of a closed proposal
\* and closeVoting of a non-active one answer BAD_REQUEST, all without a
\* write.
C17_ProposalLifecycle == []C17_Guards /\ [][C17_Step]_vars

\* C14 (as claimed): when requests that award RC to the same user through
\* awardRc are processed at the same time, then once they have all returned
\* every user's reputationCredits equals the sum of the amounts of that
\* user's ledger rows (so it reflects every award), and the ledger rows can
\* be put in an order in which each balanceAfter is the previous one plus
\* the amount and the last balanceAfter is the final balance.
C14_AwardsNotLost ==
  Quiescent =>
    \A u \in UserIds :
      /\ users[u].reputationCredits = SumAmounts(RowsOf(rcTransactions, u))
      /\ Chain(RowsOf(rcTransactions, u), 0, users[u].reputationCredits)

\* the ledger rows that grant reward `reason` for item id
RewardRows(reason, id) ==
  [r \in {x \in DOMAIN rcTransactions : x.reason = reason /\ x.referenceId = id}
     |-> rcTransactions[r]]

\* C20 (as claimed): however closeVoting requests for one proposal and
\* reviewResource requests for one resource are interleaved, the ledger
\* holds at most one proposal_passed row per proposal and at most one
\* resource_approved row per resource, and no contributor's
\* totalResourcesApproved exceeds the number of that contributor's
\* resources (one increment per resource at most).
C20_RewardedOnce ==
  /\ \A id \in DOMAIN proposals :
       BagCardinality(RewardRows("proposal_passed", id)) <= 1
  /\ \A id \in DOMAIN resources :
       BagCardinality(RewardRows("resource_approved", id)) <= 1
  /\ \A u \in UserIds :
       users[u].totalResourcesApproved
         <= Cardinality({id \in DOMAIN resources : resources[id].contributorId = u})

VotesOf(id) == {v \in proposalVotes : v.proposalId = id}

\* the sum of weightRc over the vote rows of proposal id (one row per voter)
WeightSum(id) ==
  SumAmounts([row \in {[voterId |-> v.voterId, choice |-> v.choice, amount |-> v.weightRc]
                          : v \in VotesOf(id)} |-> 1])

C15_OneRowPerVoter ==
  \A v, w \in proposalVotes :
    (v.proposalId = w.proposalId /\ v.voterId = w.voterId) => v = w

C15_TalliesMatchRows ==
  \A id \in DOMAIN proposals :
    /\ proposals[id].votesFor + proposals[id].votesAgainst + proposals[id].votesAbstain
         = Cardinality(VotesOf(id))
    /\ proposals[id].votesFor = Cardinality({v \in VotesOf(id) : v.choice = "for"})
    /\ proposals[id].votesAgainst = Cardinality({v \in VotesOf(id) : v.choice = "against"})
    /\ proposals[id].totalRcWeight = WeightSum(id)

C15_SecondVoteConflict ==
  \A v \in proposalVotes, choice \in Choices :
    (MayVote(v.voterId) /\ proposals[v.proposalId].status = "active"
       /\ ~votingEnded(proposals[v.proposalId], now))
      => Refused(governanceVote(cur, v.voterId, now, v.proposalId, choice), "CONFLICT")

\* C15: with vote requests interleaved in any way, those of one user on one
\* proposal included, no (proposal, voter) pair ever has two vote rows; and
\* whenever no request is in progress, votesFor + votesAgainst +
\* votesAbstain of every proposal is the number of its vote rows,
\* totalRcWeight is the sum of their weightRc, and a further governance.vote
\* by a user who has a vote row on an open proposal answers CONFLICT and
\* changes nothing.
C15_OneVotePerUser ==
  /\ C15_OneRowPerVoter
  /\ Quiescent => (C15_TalliesMatchRows /\ C15_SecondVoteConflict)


\* C15 witness: two requests of one user for one proposal were in progress
\* together; one returned and the other was stopped by the unique index
\* (the only source of that error), and one vote is stored and counted
C15_Witness ==
  /\ Quiescent
  /\ {inflight["q1"].result, inflight["q2"].result} = {"OK", "INTERNAL_SERVER_ERROR"}
  /\ Cardinality(VotesOf(1)) = 1
  /\ proposals[1].votesFor + proposals[1].votesAgainst + proposals[1].votesAbstain = 1
  /\ proposals[1].totalRcWeight = WeightSum(1)

\* C21: in every reachable state, a resource.create by a contributor
\* followed at once by a reject review of the new resource leaves the
\* contributor's reputationCredits at its value before the submission (and
\* every other balance as it was), and adds to the ledger exactly the two
\* offsetting rows: resource_submitted with +RESOURCE_SUBMITTED and
\* resource_rejected with -RESOURCE_SUBMITTED, both referencing the resource.
C21_RejectionRemovesBonus ==
  \A c \in UserIds, m \in UserIds :
    LET created == resourceCreate(cur, c)
        rejected == moderationReviewResource(created.s, m, created.out, "reject")
        before == users[c].reputationCredits
    IN (created.result = "OK" /\ moderatorProcedure(cur, m) = "OK") =>
         /\ agree(created, Call("resource.create", c, noId, none, <<>>))
         /\ \A id \in DOMAIN resources :
              agree(moderationReviewResource(cur, m, id, "reject"),
                    Call("moderation.reviewResource", m, id, "reject", <<>>))
         /\ rejected.result = "OK"
         /\ \A u \in UserIds :
              rejected.s.users[u].reputationCredits = users[u].reputationCredits
         /\ rejected.s.rcTransactions =
              (rcTransactions
                 (+) SetToBag({LedgerRow(c, RESOURCE_SUBMITTED, "resource_submitted",
                                         "resource", created.out,
                                         before + RESOURCE_SUBMITTED)}))
                 (+) SetToBag({LedgerRow(c, -RESOURCE_SUBMITTED, "resource_rejected",
                                         "resource", created.out, before)})


\* C21 witness: a submitted resource was rejected, its contributor had no
\* other RC event, holds 0 RC again and has exactly the two offsetting rows
C21_Witness ==
  /\ Quiescent
  /\ \E id \in DOMAIN resources :
       LET c == resources[id].contributorId IN
       /\ resources[id].status = "rejected"
       /\ users[c].totalResourcesSubmitted = 1
       /\ users[c].reputationCredits = 0
       /\ RowsOf(rcTransactions, c) =
            SetToBag({LedgerRow(c, RESOURCE_SUBMITTED, "resource_submitted", "resource", id,
                                RESOURCE_SUBMITTED),
                      LedgerRow(c, -RESOURCE_SUBMITTED, "resource_rejected", "resource", id, 0)})

\* reviewResource called once for each listed id, in list order; a call
\* that is refused (no such resource, not pending) is skipped
RECURSIVE reviewEach(_, _, _, _, _)
reviewEach(s, c, resourceIds, decision, reviewed) ==
  IF resourceIds = <<>> THEN [s |-> s, reviewed |-> reviewed]
  ELSE LET r == moderationReviewResource(s, c, Head(resourceIds), decision)
       IN IF r.result = "OK"
          THEN reviewEach(r.s, c, Tail(resourceIds), decision, reviewed + 1)
          ELSE reviewEach(s, c, Tail(resourceIds), decision, reviewed)

\* C22: in every reachable state and for every list of ids (unknown ids,
\* ids of resources that are not pending and ids listed twice included),
\* bulkReviewResources called by a moderator or admin succeeds and leaves
\* every table exactly as reviewResource called for each listed id in list
\* order, skipping the refused ones, leaves it; processed is the number of
\* resources whose status changed, which is also the number of ledger rows
\* added, so an id listed twice is rewarded or charged once.
C22_BulkIsEachInTurn ==
  \A c \in UserIds, ids \in UNION {[1..n -> 1..(MaxPageRows + 1)] : n \in 0..MaxBulk}, decision \in Decisions :
    LET bulk == moderationBulkReviewResources(cur, c, ids, decision)
        each == reviewEach(cur, c, ids, decision, 0)
        changed == {id \in DOMAIN resources :
                      bulk.s.resources[id].status # resources[id].status}
    IN moderatorProcedure(cur, c) = "OK" =>
         /\ agree(bulk, Call("moderation.bulkReviewResources", c, noId, decision, <<ids>>))
         /\ bulk.result = "OK"
         /\ bulk.s = each.s
         /\ bulk.out = each.reviewed
         /\ bulk.out = Cardinality(changed)
         /\ changed = {ids[i] : i \in DOMAIN ids}
                        \cap {id \in DOMAIN resources : resources[id].status = "pending"}
         /\ BagCardinality(bulk.s.rcTransactions)
              = BagCardinality(rcTransactions) + bulk.out


\* C22 witness: two resources of different contributors were reviewed, one
\* approved and one rejected, a third is still pending, and a bulk approval
\* that lists the pending one twice together with a reviewed one counts 1
C22_Witness ==
  /\ Quiescent
  /\ Len(resources) = 3
  /\ resources[1].status = "approved"
  /\ resources[2].status = "rejected"
  /\ resources[3].status = "pending"
  /\ resources[1].contributorId # resources[2].contributorId
  /\ moderationBulkReviewResources(cur, "u3", <<3, 3>>, "approve").out = 1
  /\ moderationBulkReviewResources(cur, "u3", <<1, 4>>, "approve").out = 0

FlagClosed(id) == moderationFlags[id].status \in {"resolved", "dismissed"}

\* what every request may do to the status column of the flags
C23_Transitions ==
  /\ Len(moderationFlags') >= Len(moderationFlags)
  /\ \A id \in DOMAIN moderationFlags' \ DOMAIN moderationFlags :
       moderationFlags'[id].status = "open"
  /\ \A id \in DOMAIN moderationFlags :
       LET old == moderationFlags[id].status
           new == moderationFlags'[id].status
       IN \/ new = old
          \/ old = "open" /\ new \in {"under_review", "resolved", "dismissed"}
          \/ old = "under_review" /\ new \in {"resolved", "dismissed"}

\* what claimFlag and resolveFlag do in the present state, whoever calls
C23_Handlers ==
  \A id \in DOMAIN moderationFlags, c \in Callers :
    LET status == moderationFlags[id].status
        claimed == moderationClaimFlag(cur, c, id)
    IN /\ agree(claimed, Call("moderation.claimFlag", c, id, none, <<>>))
       /\ claimed.result = "OK" =>
            /\ status = "open"
            /\ claimed.s = [cur EXCEPT !.moderationFlags[id].status = "under_review"]
       /\ (IsModerator(c) /\ status = "open") => claimed.result = "OK"
       /\ \A resolution \in Resolutions :
            LET resolved == moderationResolveFlag(cur, c, id, resolution)
                reporter == moderationFlags[id].reporterId
                rc(s, u) == s.users[u].reputationCredits
                reward == IF resolution = "upheld" THEN FLAG_UPHELD ELSE FLAG_DISMISSED
            IN /\ agree(resolved, Call("moderation.resolveFlag", c, id, resolution, <<>>))
               /\ resolved.result = "OK" =>
                    /\ status \in {"open", "under_review"}
                    /\ resolved.s.moderationFlags[id].status
                         = (IF resolution = "upheld" THEN "resolved" ELSE "dismissed")
                    /\ BagCardinality(resolved.s.rcTransactions)
                         = BagCardinality(rcTransactions) + 2
                    /\ IF reporter = c
                       THEN rc(resolved.s, c) = rc(cur, c) + reward + FLAG_SUBMITTED
                       ELSE /\ rc(resolved.s, reporter) = rc(cur, reporter) + reward
                            /\ rc(resolved.s, c) = rc(cur, c) + FLAG_SUBMITTED
               /\ (IsModerator(c) /\ status \in {"open", "under_review"})
                    => resolved.result = "OK"
               /\ (IsModerator(c) /\ FlagClosed(id))
                    => /\ Refused(resolved, "BAD_REQUEST")
                       /\ Refused(claimed, "BAD_REQUEST")

\* C23 (as claimed): a flag is created open; a request moves a flag only
\* from open to under_review (claimFlag) or from open or under_review to
\* resolved or dismissed (resolveFlag), and never out of resolved or
\* dismissed; a claimFlag or resolveFlag on a closed flag fails with
\* BAD_REQUEST and changes nothing, and a successful resolveFlag applies the
\* reporter's adjustment and the moderator's reward once.
C23_FlagLifecycle == []C23_Handlers /\ [][C23_Transitions]_vars

\* C24: in every reachable state and for every caller, signed in or not,
\* trackDownload on an existing resource succeeds and leaves the database
\* as it was but for one more resource_downloads row (the resource, the
\* caller or null), that resource's downloadCount + 1, its contributor's
\* totalDownloadsReceived + 1 and reputationCredits + 1, and one more
\* ledger row of +1 for the contributor; on an id without a resource row it
\* fails with NOT_FOUND and leaves the database as it was.
C24_TrackDownloadEffect ==
  \A c \in Callers, id \in ResourceIds :
    LET r == resourceTrackDownload(cur, c, id) IN
    /\ agree(r, Call("resource.trackDownload", c, id, none, <<>>))
    /\ IF id \in DOMAIN resources
       THEN LET owner == resources[id].contributorId
                balance == users[owner].reputationCredits + 1
                download == [resourceId |-> id, userId |-> IF c = anon THEN none ELSE c]
            IN /\ r.result = "OK"
               /\ r.s = [cur EXCEPT
                           !.resourceDownloads = @ (+) SetToBag({download}),
                           !.resources[id].downloadCount = @ + 1,
                           !.users[owner].totalDownloadsReceived = @ + 1,
                           !.users[owner].reputationCredits = balance,
                           !.rcTransactions = @ (+) SetToBag({LedgerRow(owner, 1, "resource_upvoted", "resource", id, balance)})]
       ELSE Refused(r, "NOT_FOUND")


\* C24 witness: a resource was downloaded once by a visitor who is not
\* signed in; its contributor has the download in the totals and the +1 row
\* in the ledger, and a download of an unknown id is refused
C24_Witness ==
  /\ Quiescent
  /\ \E id \in DOMAIN resources :
       LET owner == resources[id].contributorId IN
       /\ resourceDownloads = SetToBag({[resourceId |-> id, userId |-> none]})
       /\ resources[id].downloadCount = 1
       /\ users[owner].totalDownloadsReceived = 1
       /\ \E row \in DOMAIN rcTransactions :
            /\ row.userId = owner /\ row.amount = RESOURCE_DOWNLOAD
            /\ row.reason = "resource_upvoted" /\ row.referenceId = id
            /\ row.balanceAfter = users[owner].reputationCredits
       /\ resourceTrackDownload(cur, anon, Len(resources) + 1).result = "NOT_FOUND"


\* the statements of every procedure, executed without another request in
\* between, are the procedure
StepsAreTheHandlers ==
  \A c \in Callers :
    /\ agree(resourceCreate(cur, c), Call("resource.create", c, noId, none, <<>>))
    /\ \A id \in ResourceIds :
         /\ \A input \in UpdateInputs :
              agree(resourceUpdate(cur, c, id, input),
                    Call("resource.update", c, id, none, <<input>>))
         /\ agree(resourceSubmitForReview(cur, c, id),
                  Call("resource.submitForReview", c, id, none, <<>>))
         /\ agree(resourceTrackDownload(cur, c, id),
                  Call("resource.trackDownload", c, id, none, <<>>))
         /\ agree(resourceTrackView(cur, c, id),
                  Call("resource.trackView", c, id, none, <<>>))
         /\ \A value \in VoteValues :
              agree(resourceVote(cur, c, id, value),
                    Call("resource.vote", c, id, value, <<>>))
         /\ \A decision \in Decisions :
              agree(moderationReviewResource(cur, c, id, decision),
                    Call("moderation.reviewResource", c, id, decision, <<>>))
    /\ \A target \in FlagTargets :
         agree(moderationCreateFlag(cur, c, target[1], target[2]),
               Call("moderation.createFlag", c, target[2], target[1], <<>>))
    /\ \A ids \in BulkLists, decision \in Decisions :
         agree(moderationBulkReviewResources(cur, c, ids, decision),
               Call("moderation.bulkReviewResources", c, noId, decision, <<ids>>))
    /\ \A id \in FlagIds :
         /\ agree(moderationClaimFlag(cur, c, id),
                  Call("moderation.claimFlag", c, id, none, <<>>))
         /\ \A resolution \in Resolutions :
              agree(moderationResolveFlag(cur, c, id, resolution),
                    Call("moderation.resolveFlag", c, id, resolution, <<>>))
    /\ \A d \in VotingDurations :
         agree(governanceCreate(cur, c, now, d),
               Call("governance.create", c, noId, none, <<d>>))
    /\ \A id \in ProposalIds :
         /\ \A input \in ProposalUpdateInputs :
              agree(governanceUpdate(cur, c, id, input),
                    Call("governance.update", c, id, none, <<input>>))
         /\ agree(governanceWithdraw(cur, c, now, id),
                  Call("governance.withdraw", c, id, none, <<>>))
         /\ \A choice \in Choices :
              agree(governanceVote(cur, c, now, id, choice),
                    Call("governance.vote", c, id, choice, <<>>))
         /\ agree(governanceCloseVoting(cur, c, now, id),
                  Call("governance.closeVoting", c, id, none, <<>>))
    /\ \A u \in {"u2", "u3", "ghost"}, a \in {100, 45} :
         agree(userAdjustRc(cur, c, u, a), Call("user.adjustRc", c, noId, u, <<a>>))
    /\ \A u \in {"u2", "u3", "ghost"}, role \in {"user", "moderator"} :
         agree(userUpdateRole(cur, c, u, role),
               Call("user.updateRole", c, noId, u, <<role>>))
    /\ agree(reputationSyncLevel(cur, c), Call("reputation.syncLevel", c, noId, none, <<>>))


====
